---- MODULE Spec2Model ----
(***************************************************************************)
(* Model of the XML codec that aas-core-codegen generates for C# (the      *)
(* generated DeserializeImplementation / VisitorWithWriter, as emitted by  *)
(* csharp/xmlization/_generate.py) and of the path renderers emitted by    *)
(* java/reporting/_generate.py.                                            *)
(*                                                                         *)
(* A text is a sequence of characters; a character is a one-token string.  *)
(* Characters that have no TLA+ literal are named: "TAB", "BS", "LF",      *)
(* "CR", "FF", "QUOTE", "BACKSLASH".                                       *)
(***************************************************************************)
EXTENDS Integers, Sequences, FiniteSets, TLC

VARIABLES
    pc,         \* position of the driver: which operation ran last
    segments,   \* reporting: the path segments handed to a renderer, or to
                \* PrependSegment in the order of the calls
    rendered,   \* reporting: the text the renderer returned
    failure,    \* reporting: the Error that the frames of a failed call hand up
    root,       \* xmlization: the generated entry point called and its namespace argument
    inst,       \* xmlization: the instance handed to Serialize.To
    writer,     \* xmlization: the XmlWriter's prefix, namespace and kind
    sink,       \* xmlization: the calls Serialize.To made on the writer
    doc,        \* xmlization: the nodes the XmlReader yields, in document order
    res,        \* xmlization: what the called entry point returned
    unread,     \* xmlization: the decoded bytes of the content that
                \* reader.ReadContentAsBase64 has not handed over yet
    memoryStream, \* xmlization: the MemoryStream of ReadWholeContentAsBase64
    passes,     \* xmlization: the passes a loop of the generated code has made
    symbol_table, \* generator: the symbols of the meta-model handed to generate
    spec_impls, \* generator: the keys of the implementation-specific snippets
    generated   \* generator: the pair (code, errors) that generate returned

vars == <<pc, segments, rendered, failure, root, inst, writer, sink, doc, res, unread,
          memoryStream, passes, symbol_table, spec_impls, generated>>

\* ------------------------------------------------------------------ bounds

\* Longest segment list handed to a renderer.
MaxSegments == 3
\* Largest index of an index segment.
MaxIndex == 2
\* Longest name handed alone to a renderer (the escaping cases).
MaxEscLen == 2
\* Longest list held by a serialized instance.
MaxItems == 2
\* Longest document handed to a deserializer, in nodes.
MaxDocLen == 5
\* Most white space and comment nodes in a document handed to a deserializer.
MaxInsignificant == 1
\* Longest byte content read chunk by chunk.
MaxContent == 4
\* Longest symbol table handed to a generator.
MaxSymbols == 2
\* Longest run of nodes that a loop of the generated code is started on.
MaxLoopDoc == 3
\* Longest content of a property element that has nodes the reader fails on.
MaxFaultContent == 2
\* Most elements of properties in the element of a class whose properties
\* are given in any order.
MaxPropertyElements == 3

\* ------------------------------------------------------------------ texts

Letters ==
    { "a", "b", "c", "d", "e", "f", "g", "h", "i", "j", "k", "l", "m",
      "n", "o", "p", "q", "r", "s", "t", "u", "v", "w", "x", "y", "z",
      "A", "B", "C", "D", "E", "F", "G", "H", "I", "J", "K", "L", "M",
      "N", "O", "P", "Q", "R", "S", "T", "U", "V", "W", "X", "Y", "Z" }

DigitChars == <<"0", "1", "2", "3", "4", "5", "6", "7", "8", "9">>

Digits == { DigitChars[i] : i \in 1..10 }

\* All sequences over S of length at most n.
SeqsUpTo(S, n) == UNION { [1..k -> S] : k \in 0..n }

\* Java's String.replace(target, replacement) for a one-character target:
\* every occurrence, left to right, in one pass.
RECURSIVE Replace(_, _, _)
Replace(s, c, r) ==
    IF s = <<>> THEN <<>>
    ELSE (IF Head(s) = c THEN r ELSE <<Head(s)>>) \o Replace(Tail(s), c, r)

\* Decimal text of a non-negative integer.
RECURSIVE NatText(_)
NatText(n) ==
    IF n < 10 THEN <<DigitChars[n + 1]>>
    ELSE NatText(n \div 10) \o <<DigitChars[(n % 10) + 1]>>

\* Java's string conversion of an int ("" + i).
IntText(i) == IF i < 0 THEN <<"-">> \o NatText(0 - i) ELSE NatText(i)

\* String.join(sep, parts)
RECURSIVE Join(_, _)
Join(sep, parts) ==
    IF parts = <<>> THEN <<>>
    ELSE IF Len(parts) = 1 THEN parts[1]
    ELSE parts[1] \o sep \o Join(sep, Tail(parts))

\* ------------------------------------------------------------ reporting

NameSegment(n) == [name |-> n]

IndexSegment(i) == [index |-> i]

IsNameSegment(seg) == "name" \in DOMAIN seg

\* Pattern.compile("^[a-zA-Z_][a-zA-Z_0-9]*$").matcher(name).matches()
variableNameRe(name) ==
    /\ Len(name) >= 1
    /\ name[1] \in Letters \cup {"_"}
    /\ \A k \in 2..Len(name) : name[k] \in Letters \cup Digits \cup {"_"}

\* The chain of replace calls of generateJsonPath, in the order of the code:
\* the backslash is replaced last.
EscapeJsonName(name) ==
    LET s1 == Replace(name, "TAB", <<"BACKSLASH", "t">>)
        s2 == Replace(s1, "BS", <<"BACKSLASH", "b">>)
        s3 == Replace(s2, "LF", <<"BACKSLASH", "n">>)
        s4 == Replace(s3, "CR", <<"BACKSLASH", "r">>)
        s5 == Replace(s4, "FF", <<"BACKSLASH", "f">>)
        s6 == Replace(s5, "QUOTE", <<"BACKSLASH", "QUOTE">>)
    IN  Replace(s6, "BACKSLASH", <<"BACKSLASH", "BACKSLASH">>)

\* A faulty JsonNamePart: the position counter is not consulted.
JsonNamePartNoPosition(name, i) ==
    IF variableNameRe(name)
    THEN <<".">> \o name
    ELSE <<"[", "QUOTE">> \o EscapeJsonName(name) \o <<"QUOTE", "]">>

\* The part of a name segment at position i of generateJsonPath.
JsonNamePart(name, i) ==
    IF variableNameRe(name)
    THEN (IF i = 0 THEN name ELSE <<".">> \o name)
    ELSE <<"[", "QUOTE">> \o EscapeJsonName(name) \o <<"QUOTE", "]">>

\* The part of one segment at position i of generateJsonPath.
JsonPart(seg, i) ==
    IF IsNameSegment(seg)
    THEN JsonNamePart(seg.name, i)
    ELSE <<"[">> \o IntText(seg.index) \o <<"]">>

\* The for loop of generateJsonPath: the parts of segs, the first at position i.
RECURSIVE JsonParts(_, _)
JsonParts(segs, i) ==
    IF segs = <<>> THEN <<>>
    ELSE <<JsonPart(Head(segs), i)>> \o JsonParts(Tail(segs), i + 1)

generateJsonPath(segs) == Join(<<>>, JsonParts(segs, 0))

\* A faulty escapeForXPath: the ampersand is replaced last.
escapeForXPathAmpersandLast(text) ==
    LET s1 == Replace(text, "/", <<"&", "#", "4", "7", ";">>)
        s2 == Replace(s1, "<", <<"&", "l", "t", ";">>)
        s3 == Replace(s2, ">", <<"&", "g", "t", ";">>)
        s4 == Replace(s3, "QUOTE", <<"&", "q", "u", "o", "t", ";">>)
        s5 == Replace(s4, "'", <<"&", "a", "p", "o", "s", ";">>)
    IN  Replace(s5, "&", <<"&", "a", "m", "p", ";">>)

\* The chain of replace calls of escapeForXPath, in the order of the code:
\* the ampersand is replaced first.
escapeForXPath(text) ==
    LET s1 == Replace(text, "&", <<"&", "a", "m", "p", ";">>)
        s2 == Replace(s1, "/", <<"&", "#", "4", "7", ";">>)
        s3 == Replace(s2, "<", <<"&", "l", "t", ";">>)
        s4 == Replace(s3, ">", <<"&", "g", "t", ";">>)
        s5 == Replace(s4, "QUOTE", <<"&", "q", "u", "o", "t", ";">>)
    IN  Replace(s5, "'", <<"&", "a", "p", "o", "s", ";">>)

\* generateRelativeXPath: the for loop gives the part of each segment, and
\* the parts are joined.
generateRelativeXPath(segs) ==
    Join(<<"/">>,
         [ k \in 1..Len(segs) |->
             IF IsNameSegment(segs[k])
             THEN escapeForXPath(segs[k].name)
             ELSE <<"*", "[">> \o IntText(segs[k].index) \o <<"]">> ])

\* ---------------------------------------------------------- the schema
\* A resolved meta-model (intermediate.SymbolTable) on which the generator is
\* run: one enumeration, one abstract class with two concrete descendants,
\* and concrete classes whose properties cover every type pattern the
\* generator dispatches on.

T(t, of) == [t |-> t, of |-> of]

Property(name, type, optional) == [name |-> name, type |-> type, optional |-> optional]

ConcreteClasses == {"circle", "square", "leaf", "scalars", "holder", "group"}

\* cls.properties, in declaration order; the name is the XML name of the property.
Properties(cls) ==
    CASE cls = "circle" -> << Property("radius", T("int", ""), FALSE) >>
      [] cls = "square" -> << >>
      [] cls = "leaf" ->
            << Property("text", T("str", ""), FALSE),
               Property("flag", T("bool", ""), TRUE) >>
      [] cls = "scalars" ->
            << Property("num", T("int", ""), FALSE),
               Property("ratio", T("float", ""), TRUE),
               Property("data", T("bytes", ""), FALSE),
               Property("kind", T("enum", "color"), TRUE) >>
      [] cls = "holder" ->
            << Property("rec", T("cls", "leaf"), FALSE),
               Property("shape", T("iface", "shape"), TRUE),
               Property("items", T("list", "shape"), TRUE) >>
      [] cls = "group" -> << Property("members", T("list", "leaf"), FALSE) >>

\* The names of cls.constructor.arguments: the generator asserts that they
\* are the names of the properties.
ConstructorArguments(cls) == [k \in 1..Len(Properties(cls)) |-> Properties(cls)[k].name]

PropertyNames(cls) == { Properties(cls)[k].name : k \in 1..Len(Properties(cls)) }

PropertyByName(cls, name) ==
    Properties(cls)[CHOOSE k \in 1..Len(Properties(cls)) : Properties(cls)[k].name = name]

\* interface.implementers of the interface of a class with concrete descendants.
InterfaceNames == {"shape"}

Implementers(interface) == CASE interface = "shape" -> <<"circle", "square">>

\* isinstance(symbol, AbstractClass) or len(symbol.concrete_descendants) > 0
HasInterfaceDispatch(symbol) == symbol \in InterfaceNames

\* Stringification of the enumeration literals: literal -> XML text.
EnumLiterals(enum) == CASE enum = "color" -> <<"Red", "Green">>

EnumText(enum, literal) ==
    CASE enum = "color" /\ literal = "Red" -> <<"r", "e", "d">>
      [] enum = "color" /\ literal = "Green" -> <<"g", "r", "e", "e", "n">>
      [] OTHER -> <<"<null>">>

\* ----------------------------------------------------------- the values
\* A value carries its kind as the name of its only field, so that values of
\* different kinds are never compared field by field.

Null == [null |-> TRUE]

BoolV(b) == [bool |-> b]

IntV(i) == [int |-> i]

\* A double: a number of tenths, or one of NaN, INF, -INF.
Num(tenths) == [kind |-> "num", tenths |-> tenths]

Special(kind) == [kind |-> kind, tenths |-> 0]

FloatV(f) == [float |-> f]

StrV(s) == [str |-> s]

BytesV(b) == [bytes |-> b]

EnumV(literal) == [enum |-> literal]

ListV(items) == [list |-> items]

InstV(cls, slots) == [cls |-> cls, slots |-> slots]

\* -------------------------------- typed content (XmlConvert, as the reader
\* and the writer of System.Xml apply it to element content)

IsWhitespaceText(s) == s # <<>> /\ \A k \in 1..Len(s) : s[k] = " "

BoolText(b) == IF b THEN <<"t", "r", "u", "e">> ELSE <<"f", "a", "l", "s", "e">>

DigitValue(c) == (CHOOSE k \in 1..10 : DigitChars[k] = c) - 1

IsNatText(s) == s # <<>> /\ \A k \in 1..Len(s) : s[k] \in Digits

RECURSIVE NatValue(_)
NatValue(s) ==
    IF s = <<>> THEN 0
    ELSE 10 * NatValue(SubSeq(s, 1, Len(s) - 1)) + DigitValue(s[Len(s)])

Parsed(v) == [ok |-> TRUE, value |-> v]

NotParsed == [ok |-> FALSE, value |-> Null]

ParseBool(s) ==
    IF s \in {BoolText(TRUE), <<"1">>} THEN Parsed(BoolV(TRUE))
    ELSE IF s \in {BoolText(FALSE), <<"0">>} THEN Parsed(BoolV(FALSE))
    ELSE NotParsed

ParseLong(s) ==
    IF IsNatText(s) THEN Parsed(IntV(NatValue(s)))
    ELSE IF s # <<>> /\ Head(s) = "-" /\ IsNatText(Tail(s))
         THEN Parsed(IntV(0 - NatValue(Tail(s))))
    ELSE NotParsed

Abs(i) == IF i < 0 THEN 0 - i ELSE i

DoubleText(f) ==
    CASE f.kind = "nan" -> <<"N", "a", "N">>
      [] f.kind = "inf" -> <<"I", "N", "F">>
      [] f.kind = "ninf" -> <<"-", "I", "N", "F">>
      [] OTHER ->
            (IF f.tenths < 0 THEN <<"-">> ELSE <<>>)
            \o NatText(Abs(f.tenths) \div 10)
            \o (IF Abs(f.tenths) % 10 = 0 THEN <<>>
                ELSE <<".">> \o NatText(Abs(f.tenths) % 10))

\* The unsigned decimal texts with at most one digit after the point.
ParseTenths(s) ==
    IF IsNatText(s) THEN Parsed(10 * NatValue(s))
    ELSE IF /\ Len(s) >= 3
            /\ s[Len(s) - 1] = "."
            /\ IsNatText(SubSeq(s, 1, Len(s) - 2))
            /\ s[Len(s)] \in Digits
         THEN Parsed(10 * NatValue(SubSeq(s, 1, Len(s) - 2)) + DigitValue(s[Len(s)]))
    ELSE NotParsed

ParseDouble(s) ==
    IF s = <<"N", "a", "N">> THEN Parsed(FloatV(Special("nan")))
    ELSE IF s = <<"I", "N", "F">> THEN Parsed(FloatV(Special("inf")))
    ELSE IF s = <<"-", "I", "N", "F">> THEN Parsed(FloatV(Special("ninf")))
    ELSE IF s # <<>> /\ Head(s) = "-"
         THEN (IF ParseTenths(Tail(s)).ok
               THEN Parsed(FloatV(Num(0 - ParseTenths(Tail(s)).value)))
               ELSE NotParsed)
    ELSE IF ParseTenths(s).ok THEN Parsed(FloatV(Num(ParseTenths(s).value)))
    ELSE NotParsed

Base64Chars ==
    << "A", "B", "C", "D", "E", "F", "G", "H", "I", "J", "K", "L", "M",
       "N", "O", "P", "Q", "R", "S", "T", "U", "V", "W", "X", "Y", "Z",
       "a", "b", "c", "d", "e", "f", "g", "h", "i", "j", "k", "l", "m",
       "n", "o", "p", "q", "r", "s", "t", "u", "v", "w", "x", "y", "z",
       "0", "1", "2", "3", "4", "5", "6", "7", "8", "9", "+", "/" >>

Sextet(c) == (CHOOSE k \in 1..64 : Base64Chars[k] = c) - 1

IsSextet(c) == \E k \in 1..64 : Base64Chars[k] = c

\* Base64 text of a byte sequence, with padding.
RECURSIVE Base64Text(_)
Base64Text(b) ==
    IF b = <<>> THEN <<>>
    ELSE IF Len(b) = 1 THEN
        << Base64Chars[(b[1] \div 4) + 1],
           Base64Chars[((b[1] % 4) * 16) + 1], "=", "=" >>
    ELSE IF Len(b) = 2 THEN
        << Base64Chars[(b[1] \div 4) + 1],
           Base64Chars[((b[1] % 4) * 16 + b[2] \div 16) + 1],
           Base64Chars[((b[2] % 16) * 4) + 1], "=" >>
    ELSE
        << Base64Chars[(b[1] \div 4) + 1],
           Base64Chars[((b[1] % 4) * 16 + b[2] \div 16) + 1],
           Base64Chars[((b[2] % 16) * 4 + b[3] \div 64) + 1],
           Base64Chars[(b[3] % 64) + 1] >>
        \o Base64Text(SubSeq(b, 4, Len(b)))

\* The bytes of a padded base64 text.
RECURSIVE ParseBase64(_)
ParseBase64(s) ==
    IF s = <<>> THEN Parsed(<<>>)
    ELSE IF Len(s) < 4 \/ ~IsSextet(s[1]) \/ ~IsSextet(s[2]) THEN NotParsed
    ELSE IF s[3] = "=" THEN
        (IF Len(s) = 4 /\ s[4] = "=" /\ Sextet(s[2]) % 16 = 0
         THEN Parsed(<< Sextet(s[1]) * 4 + Sextet(s[2]) \div 16 >>)
         ELSE NotParsed)
    ELSE IF ~IsSextet(s[3]) THEN NotParsed
    ELSE IF s[4] = "=" THEN
        (IF Len(s) = 4 /\ Sextet(s[3]) % 4 = 0
         THEN Parsed(<< Sextet(s[1]) * 4 + Sextet(s[2]) \div 16,
                        (Sextet(s[2]) % 16) * 16 + Sextet(s[3]) \div 4 >>)
         ELSE NotParsed)
    ELSE IF ~IsSextet(s[4]) THEN NotParsed
    ELSE LET rest == ParseBase64(SubSeq(s, 5, Len(s)))
         IN  IF rest.ok
             THEN Parsed(<< Sextet(s[1]) * 4 + Sextet(s[2]) \div 16,
                            (Sextet(s[2]) % 16) * 16 + Sextet(s[3]) \div 4,
                            (Sextet(s[3]) % 4) * 64 + Sextet(s[4]) >> \o rest.value)
             ELSE NotParsed

\* ------------------------------------------------ the cursor (XmlReader)
\* The reader over a document is the node sequence d and the position p of
\* the current node; past the last node the reader is at the end of file.

\* reader.Name as <<prefix, local name>>; a name of the generated code, which
\* has no prefix, is <<"", name>>.
Unprefixed(name) == <<"", name>>

NoName == Unprefixed("")

\* The namespace argument of a call without a namespace (ns == null), and
\* the namespace of an element that is in none.
NoNs == ""

Node(kind, prefix, local, ns, empty, text) ==
    [kind |-> kind, prefix |-> prefix, local |-> local, ns |-> ns,
     empty |-> empty, text |-> text]

Element(prefix, local, ns, empty) == Node("Element", prefix, local, ns, empty, <<>>)

EndElement(prefix, local, ns) == Node("EndElement", prefix, local, ns, FALSE, <<>>)

Text(s) == Node("Text", "", "", NoNs, FALSE, s)

Whitespace(s) == Node("Whitespace", "", "", NoNs, FALSE, s)

Comment == Node("Comment", "", "", NoNs, FALSE, <<>>)

\* A text node that the reader cannot read to its end: the reader stands
\* on it as on any text node (it parses the value of a text node only when
\* the value is asked for), and a read of its content throws the exception.
Fault(exception) == Node("Text", "", exception, NoNs, FALSE, <<>>)

\* XmlNodeType.None: the reader before its first Read(), and at the end of file.
NoneNode == Node("None", "", "", NoNs, FALSE, <<>>)

\* reader.EOF
EOF(d, p) == p > Len(d)

\* The current node of the reader.
Current(d, p) == IF EOF(d, p) THEN NoneNode ELSE d[p]

\* reader.Read()
Read(d, p) == IF EOF(d, p) THEN p ELSE p + 1

\* SkipNoneWhitespaceAndComments(reader)
RECURSIVE SkipNoneWhitespaceAndComments(_, _)
SkipNoneWhitespaceAndComments(d, p) ==
    IF /\ ~EOF(d, p)
       /\ Current(d, p).kind \in {"None", "Whitespace", "Comment"}
    THEN SkipNoneWhitespaceAndComments(d, Read(d, p))
    ELSE p

\* The node kinds that the ReadContentAs methods read over.
ContentKinds == {"Text", "Whitespace", "Comment"}

\* The end of the run of content nodes that starts at p.
RECURSIVE ContentEnd(_, _)
ContentEnd(d, p) ==
    IF ~EOF(d, p) /\ Current(d, p).kind \in ContentKinds
    THEN ContentEnd(d, p + 1)
    ELSE p

\* The text of the run of content nodes that starts at p: text and white
\* space concatenated, comments left out.
RECURSIVE ContentText(_, _)
ContentText(d, p) ==
    IF ~EOF(d, p) /\ Current(d, p).kind \in ContentKinds
    THEN Current(d, p).text \o ContentText(d, p + 1)
    ELSE <<>>

\* The exception of the first text node that cannot be read in the run of
\* content nodes that starts at p; "" when all can be read.
RECURSIVE ContentFault(_, _)
ContentFault(d, p) ==
    IF ~EOF(d, p) /\ Current(d, p).kind \in ContentKinds
    THEN IF Current(d, p).kind = "Text" /\ Current(d, p).local # ""
         THEN Current(d, p).local
         ELSE ContentFault(d, p + 1)
    ELSE ""

\* What a call of the reader gives: a value and the new position, or an
\* exception.
Got(v, p) == [thrown |-> "", value |-> v, pos |-> p]

Throws(exception, p) == [thrown |-> exception, value |-> Null, pos |-> p]

\* reader.ReadContentAsString(): the content from the current node on; the
\* empty string on an end element; not allowed on a start element.
ReadContentAsString(d, p) ==
    IF ContentFault(d, p) # "" THEN Throws(ContentFault(d, p), p)
    ELSE IF Current(d, p).kind \in ContentKinds
    THEN Got(ContentText(d, p), ContentEnd(d, p))
    ELSE IF Current(d, p).kind = "EndElement" THEN Got(<<>>, p)
    ELSE Throws("InvalidOperationException", p)

RECURSIVE TrimLeft(_)
TrimLeft(s) == IF s # <<>> /\ Head(s) = " " THEN TrimLeft(Tail(s)) ELSE s

RECURSIVE TrimRight(_)
TrimRight(s) ==
    IF s # <<>> /\ s[Len(s)] = " " THEN TrimRight(SubSeq(s, 1, Len(s) - 1)) ELSE s

Trim(s) == TrimRight(TrimLeft(s))

\* The typed reads convert the content text; a text that does not convert
\* is reported as an XmlException (that wraps the FormatException).
ReadContentAs(parsed, content) ==
    IF content.thrown # "" THEN content
    ELSE IF parsed.ok THEN Got(parsed.value, content.pos)
    ELSE Throws("XmlException", content.pos)

ReadContentAsBoolean(d, p) ==
    LET content == ReadContentAsString(d, p)
    IN  ReadContentAs(ParseBool(Trim(content.value)), content)

ReadContentAsLong(d, p) ==
    LET content == ReadContentAsString(d, p)
    IN  ReadContentAs(ParseLong(Trim(content.value)), content)

ReadContentAsDouble(d, p) ==
    LET content == ReadContentAsString(d, p)
    IN  ReadContentAs(ParseDouble(Trim(content.value)), content)

\* The capacity of the buffer of ReadWholeContentAsBase64.
BufferSize == 1024

Min(a, b) == IF a < b THEN a ELSE b

\* The while loop of ReadWholeContentAsBase64: reader.ReadContentAsBase64
\* hands over at most BufferSize of the remaining bytes per call, and the
\* loop ends at the first call that hands over none.
RECURSIVE ReadChunks(_, _)
ReadChunks(remaining, stream) ==
    LET readBytes == Min(Len(remaining), BufferSize)
    IN  IF readBytes > 0
        THEN ReadChunks(SubSeq(remaining, readBytes + 1, Len(remaining)),
                        stream \o SubSeq(remaining, 1, readBytes))
        ELSE stream

RECURSIVE WithoutSpaces(_)
WithoutSpaces(s) ==
    IF s = <<>> THEN <<>>
    ELSE (IF Head(s) = " " THEN <<>> ELSE <<Head(s)>>) \o WithoutSpaces(Tail(s))

\* ReadWholeContentAsBase64(reader)
ReadWholeContentAsBase64(d, p) ==
    LET content == ReadContentAsString(d, p)
        bytes == ParseBase64(WithoutSpaces(content.value))
    IN  IF content.thrown # "" THEN content
        ELSE IF bytes.ok THEN Got(BytesV(ReadChunks(bytes.value, <<>>)), content.pos)
        ELSE Throws("XmlException", content.pos)

\* -------------------------------------------------------- Reporting.Error

Error(kind, expected, cls, name) ==
    [kind |-> kind, expected |-> expected, cls |-> cls, name |-> name,
     text |-> <<>>, segments |-> <<>>]

NoError == Error("none", "", "", NoName)

\* A faulty PrependSegment: the segment is added last.
AppendSegment(error, segment) == [error EXCEPT !.segments = @ \o <<segment>>]

\* error.PrependSegment(segment)
PrependSegment(error, segment) == [error EXCEPT !.segments = <<segment>> \o @]

\* What a generated deserialization method leaves: the returned value with
\* a null error ("ok"), null with an error ("error"), or an exception that
\* leaves the method ("thrown"); and the position of the reader.
Ok(v, p) == [status |-> "ok", value |-> v, error |-> NoError, thrown |-> "", pos |-> p]

Failed(e, p) == [status |-> "error", value |-> Null, error |-> e, thrown |-> "", pos |-> p]

Thrown(exception, p) ==
    [status |-> "thrown", value |-> Null, error |-> NoError, thrown |-> exception, pos |-> p]

\* A faulty TryElementName: the namespace of the element is not compared.
TryElementNameAnyNamespace(node, ns) ==
    IF node.kind \notin {"Element", "EndElement"}
    THEN [thrown |-> "InvalidOperationException", error |-> NoError, name |-> NoName]
    ELSE IF ns = NoNs
    THEN [thrown |-> "", error |-> NoError, name |-> <<node.prefix, node.local>>]
    ELSE [thrown |-> "", error |-> NoError, name |-> Unprefixed(node.local)]

\* TryElementName(reader, ns, out error)
TryElementName(node, ns) ==
    IF node.kind \notin {"Element", "EndElement"}
    THEN [thrown |-> "InvalidOperationException", error |-> NoError, name |-> NoName]
    ELSE IF ns = NoNs
    THEN [thrown |-> "", error |-> NoError, name |-> <<node.prefix, node.local>>]
    ELSE IF ns # node.ns
    THEN [thrown |-> "", error |-> Error("NamespaceMismatch", "", "", NoName), name |-> NoName]
    ELSE [thrown |-> "", error |-> NoError, name |-> Unprefixed(node.local)]

\* ------------------------------------- the generated deserialization code

\* reader.ReadContentAsString() as the deserialization expression of a
\* string property.
ReadStringValue(d, p) ==
    LET content == ReadContentAsString(d, p)
    IN  IF content.thrown # "" THEN content ELSE Got(StrV(content.value), content.pos)

\* deserialization_expr of _generate_deserialize_primitive_property
DeserializationExpr(a_type, d, p) ==
    CASE a_type = "bool" -> ReadContentAsBoolean(d, p)
      [] a_type = "int" -> ReadContentAsLong(d, p)
      [] a_type = "float" -> ReadContentAsDouble(d, p)
      [] a_type = "str" -> ReadStringValue(d, p)
      [] a_type = "bytes" -> ReadWholeContentAsBase64(d, p)

\* A faulty EmptyHandlingBody: every primitive type gets a default.
EmptyHandlingBodyAllDefault(prop, cls, p) ==
    Ok(CASE prop.type.t = "str" -> StrV(<<>>)
         [] prop.type.t = "bytes" -> BytesV(<<>>)
         [] prop.type.t = "bool" -> BoolV(FALSE)
         [] prop.type.t = "int" -> IntV(0)
         [] prop.type.t = "float" -> FloatV(Num(0)), p)

\* empty_handling_body of _generate_deserialize_primitive_property: only a
\* string property is given a value from a self-closing element.
EmptyHandlingBody(prop, cls, p) ==
    IF prop.type.t = "str"
    THEN Ok(StrV(<<>>), p)
    ELSE Failed(PrependSegment(Error("EmptyScalarContent", "", cls, Unprefixed(prop.name)),
                               NameSegment(prop.name)), p)

\* The error of a caught exception: its message ends with the exception.
CouldNotBeDeserialized(prop, cls, exception) ==
    [Error("ValueFormatError", "", cls, Unprefixed(prop.name)) EXCEPT !.text = <<exception>>]

\* A faulty CatchRead: every exception becomes an error.
CatchReadAll(prop, cls, read) ==
    IF read.thrown = "" THEN Ok(read.value, read.pos)
    ELSE Failed(PrependSegment(CouldNotBeDeserialized(prop, cls, read.thrown),
                               NameSegment(prop.name)), read.pos)

\* The try and catch around the deserialization expression: a
\* FormatException or an XmlException becomes an error with the name of the
\* property as segment, any other exception leaves the method.
CatchRead(prop, cls, read) ==
    IF read.thrown = "" THEN Ok(read.value, read.pos)
    ELSE IF read.thrown \in {"FormatException", "XmlException"}
    THEN Failed(PrependSegment(CouldNotBeDeserialized(prop, cls, read.thrown),
                               NameSegment(prop.name)), read.pos)
    ELSE Thrown(read.thrown, read.pos)

\* The snippet of _generate_deserialize_primitive_property.
DeserializePrimitiveProperty(prop, cls, d, p, isEmptyProperty) ==
    IF isEmptyProperty THEN EmptyHandlingBody(prop, cls, p)
    ELSE IF EOF(d, p)
    THEN Failed(Error("UnexpectedEndOfDocument", "content", cls, Unprefixed(prop.name)), p)
    ELSE CatchRead(prop, cls, DeserializationExpr(prop.type.t, d, p))

\* Stringification.<Enum>FromString(text): the literal, or null.
EnumFromString(enum, text) ==
    IF \E k \in 1..Len(EnumLiterals(enum)) : EnumText(enum, EnumLiterals(enum)[k]) = text
    THEN EnumV(EnumLiterals(enum)[CHOOSE k \in 1..Len(EnumLiterals(enum)) :
                                     EnumText(enum, EnumLiterals(enum)[k]) = text])
    ELSE Null

\* The try and catch around the read of the text of an enumeration literal
\* (only a FormatException is caught), and the conversion of the text.
CatchReadLiteral(prop, cls, read) ==
    IF read.thrown = "FormatException"
    THEN Failed(PrependSegment(CouldNotBeDeserialized(prop, cls, read.thrown),
                               NameSegment(prop.name)), read.pos)
    ELSE IF read.thrown # "" THEN Thrown(read.thrown, read.pos)
    ELSE IF EnumFromString(prop.type.of, read.value) = Null
    THEN Failed(PrependSegment(
                    [Error("UnknownEnumLiteral", "", cls, Unprefixed(prop.name))
                        EXCEPT !.text = read.value],
                    NameSegment(prop.name)), read.pos)
    ELSE Ok(EnumFromString(prop.type.of, read.value), read.pos)

\* The snippet of _generate_deserialize_enumeration_property.
DeserializeEnumerationProperty(prop, cls, d, p, isEmptyProperty) ==
    IF isEmptyProperty
    THEN Failed(PrependSegment(Error("EmptyEnumContent", "", cls, Unprefixed(prop.name)),
                               NameSegment(prop.name)), p)
    ELSE IF EOF(d, p)
    THEN Failed(Error("UnexpectedEndOfDocument", "content", cls, Unprefixed(prop.name)), p)
    ELSE CatchReadLiteral(prop, cls, ReadContentAsString(d, p))

RECURSIVE ClsFromSequence(_, _, _, _, _)
RECURSIVE PropertyLoop(_, _, _, _, _)
RECURSIVE DeserializeProperty(_, _, _, _, _, _, _)
RECURSIVE ListLoop(_, _, _, _, _, _)
RECURSIVE ClsFromElement(_, _, _, _)
RECURSIVE InterfaceFromElement(_, _, _, _)

\* if (error != null) { error.PrependSegment(segment); return null; } after
\* the call that gave target.
PrependOnError(target, segment) ==
    IF target.status = "error"
    THEN Failed(PrependSegment(target.error, segment), target.pos)
    ELSE target

\* A faulty DeserializeInterfaceProperty: when an element follows the inner
\* element, it is decoded as well and its instance is taken.
DeserializeInterfacePropertyTwice(prop, cls, d, p, isEmptyProperty, ns, elementName) ==
    IF isEmptyProperty
    THEN Failed(Error("EmptyPolymorphicContent", "inner element", cls, elementName), p)
    ELSE IF EOF(d, p)
    THEN Failed(Error("UnexpectedEndOfDocument", "inner element", cls, elementName), p)
    ELSE IF /\ InterfaceFromElement(prop.type.of, d, p, ns).status = "ok"
            /\ Current(d, SkipNoneWhitespaceAndComments(d,
                    InterfaceFromElement(prop.type.of, d, p, ns).pos)).kind = "Element"
    THEN PrependOnError(
            InterfaceFromElement(prop.type.of, d,
                SkipNoneWhitespaceAndComments(d,
                    InterfaceFromElement(prop.type.of, d, p, ns).pos), ns),
            NameSegment(prop.name))
    ELSE PrependOnError(InterfaceFromElement(prop.type.of, d, p, ns),
                        NameSegment(prop.name))

\* The snippet of _generate_deserialize_interface_property.
DeserializeInterfaceProperty(prop, cls, d, p, isEmptyProperty, ns, elementName) ==
    IF isEmptyProperty
    THEN Failed(Error("EmptyPolymorphicContent", "inner element", cls, elementName), p)
    ELSE IF EOF(d, p)
    THEN Failed(Error("UnexpectedEndOfDocument", "inner element", cls, elementName), p)
    ELSE PrependOnError(InterfaceFromElement(prop.type.of, d, p, ns),
                        NameSegment(prop.name))

\* A faulty DeserializeClsProperty: an element of the name of the class is
\* expected in the element of the property.
DeserializeClsPropertyFromElement(cls, prop, d, p, isEmptyProperty, ns) ==
    PrependOnError(ClsFromElement(prop.type.of, d, p, ns), NameSegment(prop.name))

\* The snippet of _generate_deserialize_cls_property.
DeserializeClsProperty(cls, prop, d, p, isEmptyProperty, ns) ==
    PrependOnError(ClsFromSequence(prop.type.of, d, p, isEmptyProperty, ns),
                   NameSegment(prop.name))

\* deserialize_method of _generate_deserialize_list_property
DeserializeItem(symbol, d, p, ns) ==
    IF HasInterfaceDispatch(symbol)
    THEN InterfaceFromElement(symbol, d, p, ns)
    ELSE ClsFromElement(symbol, d, p, ns)

\* A faulty AddItem: the item is put before the items read so far.
AddItemFirst(prop, d, ns, index, target, item) ==
    IF item.status = "error"
    THEN Failed(PrependSegment(item.error, IndexSegment(index)), item.pos)
    ELSE IF item.status = "thrown" THEN item
    ELSE IF item.value = Null
    THEN Thrown("InvalidOperationException: Unexpected item null when error null", item.pos)
    ELSE ListLoop(prop, d, SkipNoneWhitespaceAndComments(d, item.pos), ns,
                  index + 1, <<item.value>> \o target)

\* The body of the while loop of _generate_deserialize_list_property after
\* the item was deserialized: the error gets the index as segment, else the
\* item is added and the loop goes on after the skipped nodes.
AddItem(prop, d, ns, index, target, item) ==
    IF item.status = "error"
    THEN Failed(PrependSegment(item.error, IndexSegment(index)), item.pos)
    ELSE IF item.status = "thrown" THEN item
    ELSE IF item.value = Null
    THEN Thrown("InvalidOperationException: Unexpected item null when error null", item.pos)
    ELSE ListLoop(prop, d, SkipNoneWhitespaceAndComments(d, item.pos), ns,
                  index + 1, Append(target, item.value))

\* The while loop of _generate_deserialize_list_property, entered with the
\* items read so far.
ListLoop(prop, d, p, ns, index, target) ==
    IF Current(d, p).kind # "Element" THEN Ok(ListV(target), p)
    ELSE AddItem(prop, d, ns, index, target, DeserializeItem(prop.type.of, d, p, ns))

\* The snippet of _generate_deserialize_list_property.
DeserializeListProperty(prop, d, p, isEmptyProperty, ns) ==
    IF isEmptyProperty THEN Ok(ListV(<<>>), p)
    ELSE ListLoop(prop, d, SkipNoneWhitespaceAndComments(d, p), ns, 0, <<>>)

\* _generate_deserialize_property: the case body of the property.
DeserializeProperty(prop, cls, d, p, isEmptyProperty, ns, elementName) ==
    CASE prop.type.t \in {"bool", "int", "float", "str", "bytes"} ->
            DeserializePrimitiveProperty(prop, cls, d, p, isEmptyProperty)
      [] prop.type.t = "enum" ->
            DeserializeEnumerationProperty(prop, cls, d, p, isEmptyProperty)
      [] prop.type.t = "iface" ->
            DeserializeInterfaceProperty(prop, cls, d, p, isEmptyProperty, ns, elementName)
      [] prop.type.t = "cls" ->
            DeserializeClsProperty(cls, prop, d, p, isEmptyProperty, ns)
      [] prop.type.t = "list" ->
            DeserializeListProperty(prop, d, p, isEmptyProperty, ns)

\* A faulty ReadEndElement: the name of the end element is not compared
\* with the name of the start tag.
ReadEndElementOfAnyName(cls, d, p, ns, elementName) ==
    IF EOF(d, p)
    THEN Failed(Error("UnexpectedEndOfDocument", "end element", cls, elementName), p)
    ELSE IF Current(d, p).kind # "EndElement"
    THEN Failed(Error("UnexpectedNodeKind", "end element", cls, elementName), p)
    ELSE LET endElementName == TryElementName(Current(d, p), ns)
         IN  IF endElementName.error # NoError THEN Failed(endElementName.error, p)
             ELSE Ok(Null, Read(d, p))

\* The end of an element that is not self-closing, as both the property loop
\* and <Cls>FromElement read it: the reader stands after the skipped nodes.
\* Gives the error, or "ok" with the position after the end element.
ReadEndElement(cls, d, p, ns, elementName) ==
    IF EOF(d, p)
    THEN Failed(Error("UnexpectedEndOfDocument", "end element", cls, elementName), p)
    ELSE IF Current(d, p).kind # "EndElement"
    THEN Failed(Error("UnexpectedNodeKind", "end element", cls, elementName), p)
    ELSE LET endElementName == TryElementName(Current(d, p), ns)
         IN  IF endElementName.error # NoError THEN Failed(endElementName.error, p)
             ELSE IF endElementName.name # elementName
             THEN Failed(Error("MismatchedEndElement", "end element", cls, elementName), p)
             ELSE Ok(Null, Read(d, p))

\* The switch of the property loop on the element name.
SwitchElementName(cls, d, p, isEmptyProperty, ns, elementName) ==
    IF elementName \in { Unprefixed(n) : n \in PropertyNames(cls) }
    THEN DeserializeProperty(PropertyByName(cls, elementName[2]), cls, d, p,
                             isEmptyProperty, ns, elementName)
    ELSE Failed(Error("UnknownProperty", "", cls, elementName), p)

\* The end of the body of the property loop, after the end of the element
\* of the property (ended): the nodes are skipped, and the loop is left at
\* the end of file or goes on with the values assigned.
NextProperty(cls, d, ns, assigned, ended) ==
    IF ended.status # "ok" THEN ended
    ELSE IF EOF(d, SkipNoneWhitespaceAndComments(d, ended.pos))
    THEN Ok(assigned, SkipNoneWhitespaceAndComments(d, ended.pos))
    ELSE PropertyLoop(cls, d, SkipNoneWhitespaceAndComments(d, ended.pos), ns, assigned)

\* A faulty EndProperty: an error of the case body does not return, the
\* loop goes on with the property unset.
EndPropertyGoesOn(cls, d, ns, the, elementName, isEmptyProperty, value) ==
    IF value.status = "thrown" THEN value
    ELSE NextProperty(cls, d, ns, [the EXCEPT ![elementName[2]] = value.value],
            IF isEmptyProperty THEN Ok(Null, value.pos)
            ELSE ReadEndElement(cls, d, SkipNoneWhitespaceAndComments(d, value.pos),
                                ns, elementName))

\* A faulty EndProperty: the value of a property that was set before is
\* kept.
EndPropertyKeepsFirst(cls, d, ns, the, elementName, isEmptyProperty, value) ==
    IF value.status # "ok" THEN value
    ELSE NextProperty(cls, d, ns,
            [the EXCEPT ![elementName[2]] =
                IF the[elementName[2]] = Null THEN value.value ELSE the[elementName[2]]],
            IF isEmptyProperty THEN Ok(Null, value.pos)
            ELSE ReadEndElement(cls, d, SkipNoneWhitespaceAndComments(d, value.pos),
                                ns, elementName))

\* A faulty EndProperty: with the value of a property the values of the
\* properties declared after it are unset.
EndPropertyUnsetsLater(cls, d, ns, the, elementName, isEmptyProperty, value) ==
    IF value.status # "ok" THEN value
    ELSE NextProperty(cls, d, ns,
            [n \in DOMAIN the |->
                IF n = elementName[2] THEN value.value
                ELSE IF \E j, k \in 1..Len(Properties(cls)) :
                            /\ j < k
                            /\ Properties(cls)[j].name = elementName[2]
                            /\ Properties(cls)[k].name = n
                THEN Null
                ELSE the[n]],
            IF isEmptyProperty THEN Ok(Null, value.pos)
            ELSE ReadEndElement(cls, d, SkipNoneWhitespaceAndComments(d, value.pos),
                                ns, elementName))

\* The body of the property loop after the switch gave the value: an error
\* returns, else the nodes are skipped and, unless the element of the
\* property is self-closing, its end element is read.
EndProperty(cls, d, ns, the, elementName, isEmptyProperty, value) ==
    IF value.status # "ok" THEN value
    ELSE NextProperty(cls, d, ns, [the EXCEPT ![elementName[2]] = value.value],
            IF isEmptyProperty THEN Ok(Null, value.pos)
            ELSE ReadEndElement(cls, d, SkipNoneWhitespaceAndComments(d, value.pos),
                                ns, elementName))

\* The while loop of <Cls>FromSequence over the elements of the properties,
\* entered with the values read so far; gives these values.
PropertyLoop(cls, d, p, ns, the) ==
    IF Current(d, p).kind # "Element" THEN Ok(the, p)
    ELSE IF TryElementName(Current(d, p), ns).error # NoError
    THEN Failed(TryElementName(Current(d, p), ns).error, p)
    ELSE EndProperty(cls, d, ns, the, TryElementName(Current(d, p), ns).name,
                     Current(d, p).empty,
                     SwitchElementName(cls, d, Read(d, p), Current(d, p).empty, ns,
                                       TryElementName(Current(d, p), ns).name))

\* A faulty UnsetRequired: the optional properties are checked, not the
\* required ones.
UnsetOptional(cls, the) ==
    SelectSeq(Properties(cls), LAMBDA prop : prop.optional /\ the[prop.name] = Null)

\* A faulty UnsetRequired: the required properties are checked from the
\* last declared to the first.
UnsetRequiredLastFirst(cls, the) ==
    [k \in 1..Len(SelectSeq(Properties(cls),
                            LAMBDA prop : ~prop.optional /\ the[prop.name] = Null)) |->
        SelectSeq(Properties(cls), LAMBDA prop : ~prop.optional /\ the[prop.name] = Null)
            [Len(SelectSeq(Properties(cls),
                           LAMBDA prop : ~prop.optional /\ the[prop.name] = Null)) + 1 - k]]

\* The required properties of cls that are unset in the values the, in
\* declaration order.
UnsetRequired(cls, the) ==
    SelectSeq(Properties(cls), LAMBDA prop : ~prop.optional /\ the[prop.name] = Null)

\* A faulty RequiredUnset: the error is given the name of the property as a
\* segment.
RequiredUnsetNamed(cls, prop) ==
    PrependSegment(Error("MissingRequiredProperty", "", cls, Unprefixed(prop.name)),
                   NameSegment(prop.name))

\* The error of the check of a required property after the property loop.
RequiredUnset(cls, prop) ==
    Error("MissingRequiredProperty", "", cls, Unprefixed(prop.name))

\* The end of <Cls>FromSequence, after the property loop gave the values
\* (read): the checks of the required properties and the constructor call,
\* whose argument of a required property is "the_x ?? throw".
Construct(cls, read) ==
    IF read.status # "ok" THEN read
    ELSE IF UnsetRequired(cls, read.value) # <<>>
    THEN Failed(RequiredUnset(cls, UnsetRequired(cls, read.value)[1]), read.pos)
    ELSE IF \E k \in 1..Len(ConstructorArguments(cls)) :
                /\ ~PropertyByName(cls, ConstructorArguments(cls)[k]).optional
                /\ read.value[ConstructorArguments(cls)[k]] = Null
    THEN Thrown("InvalidOperationException: Unexpected null, had to be handled before",
                read.pos)
    ELSE Ok(InstV(cls, read.value), read.pos)

\* <Cls>FromSequence(reader, isEmptySequence, ns, out error)
ClsFromSequence(cls, d, p, isEmptySequence, ns) ==
    IF Len(ConstructorArguments(cls)) = 0
    THEN Ok(InstV(cls, [n \in {} |-> Null]), p)
    ELSE IF isEmptySequence
    THEN Construct(cls, Ok([n \in PropertyNames(cls) |-> Null], p))
    ELSE IF EOF(d, SkipNoneWhitespaceAndComments(d, p))
    THEN Failed(Error("UnexpectedEndOfDocument", "property element", cls, NoName),
                SkipNoneWhitespaceAndComments(d, p))
    ELSE Construct(cls, PropertyLoop(cls, d, SkipNoneWhitespaceAndComments(d, p), ns,
                                     [n \in PropertyNames(cls) |-> Null]))

\* The return of <Cls>FromElement after the end element was read (ended).
ReturnResult(result, ended) ==
    IF ended.status # "ok" THEN ended ELSE Ok(result.value, ended.pos)

\* The end of <Cls>FromElement, after FromSequence gave the result: an
\* error returns, else the nodes are skipped and, unless the element is
\* self-closing, its end element is read.
EndElementOf(cls, d, ns, elementName, isEmptyElement, result) ==
    IF result.status # "ok" THEN result
    ELSE IF isEmptyElement
    THEN Ok(result.value, SkipNoneWhitespaceAndComments(d, result.pos))
    ELSE ReturnResult(result,
            ReadEndElement(cls, d, SkipNoneWhitespaceAndComments(d, result.pos),
                           ns, elementName))

\* A faulty <Cls>FromElement: the local name of the element is compared
\* with the name of the class before the namespace is.
ClsFromElementNameFirst(cls, d, p, ns) ==
    LET start == SkipNoneWhitespaceAndComments(d, p)
        elementName == TryElementName(Current(d, start), ns)
    IN  IF EOF(d, start)
        THEN Failed(Error("UnexpectedEndOfDocument", "element", cls, NoName), start)
        ELSE IF Current(d, start).kind # "Element"
        THEN Failed(Error("UnexpectedNodeKind", "element", cls, NoName), start)
        ELSE IF Current(d, start).local # cls
        THEN Failed(Error("UnexpectedElementName", "element", cls,
                          Unprefixed(Current(d, start).local)), start)
        ELSE IF elementName.error # NoError THEN Failed(elementName.error, start)
        ELSE IF elementName.name # Unprefixed(cls)
        THEN Failed(Error("UnexpectedElementName", "element", cls, elementName.name), start)
        ELSE EndElementOf(cls, d, ns, elementName.name, Current(d, start).empty,
                          ClsFromSequence(cls, d, Read(d, start),
                                          Current(d, start).empty, ns))

\* <Cls>FromElement(reader, ns, out error)
ClsFromElement(cls, d, p, ns) ==
    LET start == SkipNoneWhitespaceAndComments(d, p)
        elementName == TryElementName(Current(d, start), ns)
    IN  IF EOF(d, start)
        THEN Failed(Error("UnexpectedEndOfDocument", "element", cls, NoName), start)
        ELSE IF Current(d, start).kind # "Element"
        THEN Failed(Error("UnexpectedNodeKind", "element", cls, NoName), start)
        ELSE IF elementName.error # NoError THEN Failed(elementName.error, start)
        ELSE IF elementName.name # Unprefixed(cls)
        THEN Failed(Error("UnexpectedElementName", "element", cls, elementName.name), start)
        ELSE EndElementOf(cls, d, ns, elementName.name, Current(d, start).empty,
                          ClsFromSequence(cls, d, Read(d, start),
                                          Current(d, start).empty, ns))

\* A faulty SwitchImplementer: every known name is given to the decoder of
\* the first implementer.
SwitchFirstImplementer(interface, d, p, ns, elementName) ==
    IF \E k \in 1..Len(Implementers(interface)) :
            elementName = Unprefixed(Implementers(interface)[k])
    THEN ClsFromElement(Implementers(interface)[1], d, p, ns)
    ELSE Failed(Error("UnknownPolymorphicVariant", "", interface, elementName), p)

\* The switch of <Interface>FromElement over the implementers.
SwitchImplementer(interface, d, p, ns, elementName) ==
    IF \E k \in 1..Len(Implementers(interface)) :
            elementName = Unprefixed(Implementers(interface)[k])
    THEN ClsFromElement(elementName[2], d, p, ns)
    ELSE Failed(Error("UnknownPolymorphicVariant", "", interface, elementName), p)

\* <Interface>FromElement(reader, ns, out error)
InterfaceFromElement(interface, d, p, ns) ==
    LET start == SkipNoneWhitespaceAndComments(d, p)
        elementName == TryElementName(Current(d, start), ns)
    IN  IF EOF(d, start)
        THEN Failed(Error("UnexpectedEndOfDocument", "element", interface, NoName), start)
        ELSE IF Current(d, start).kind # "Element"
        THEN Failed(Error("UnexpectedNodeKind", "element", interface, NoName), start)
        ELSE IF elementName.error # NoError THEN Failed(elementName.error, start)
        ELSE SwitchImplementer(interface, d, start, ns, elementName.name)

\* --------------------------------------- the generated serialization code
\* The calls that reach the XmlWriter, in order, and the exception that
\* ended them, if any.

WriteStartElement(localName) == [op |-> "start", name |-> localName, text |-> <<>>]

WriteEndElement == [op |-> "end", name |-> "", text |-> <<>>]

\* writer.WriteValue(bool), WriteValue(long), WriteValue(double),
\* WriteValue(string) and writer.WriteBase64(buffer): the text written.
WriteValue(v) ==
    [op |-> "value", name |-> "",
     text |-> CASE "bool" \in DOMAIN v -> BoolText(v.bool)
                [] "int" \in DOMAIN v -> IntText(v.int)
                [] "float" \in DOMAIN v -> DoubleText(v.float)
                [] "str" \in DOMAIN v -> v.str
                [] "bytes" \in DOMAIN v -> Base64Text(v.bytes)]

Written(calls) == [calls |-> calls, thrown |-> ""]

\* Statements in sequence: the second runs unless the first threw.
Then(first, second) ==
    IF first.thrown # "" THEN first
    ELSE [calls |-> first.calls \o second.calls, thrown |-> second.thrown]

RECURSIVE ClsToSequence(_, _, _)
RECURSIVE Visit(_)
RECURSIVE VisitItems(_)

\* _generate_serialize_primitive_property_as_content, without the test of
\* an optional property.
SerializePrimitiveProperty(prop, value) ==
    Written(<< WriteStartElement(prop.name), WriteValue(value), WriteEndElement >>)

\* Stringification.ToString(literal) is null for a value that is no literal.
IsLiteral(enum, literal) ==
    \E k \in 1..Len(EnumLiterals(enum)) : EnumLiterals(enum)[k] = literal

\* A faulty SerializeEnumerationProperty: a value that is no literal is
\* written as the first literal.
SerializeEnumerationPropertyDefaulted(prop, value) ==
    Written(<< WriteStartElement(prop.name),
               WriteValue(StrV(EnumText(prop.type.of,
                    IF IsLiteral(prop.type.of, value.enum) THEN value.enum
                    ELSE EnumLiterals(prop.type.of)[1]))),
               WriteEndElement >>)

\* A faulty SerializeEnumerationProperty: the text of the value is looked
\* up, and the exception thrown, before the element is started.
SerializeEnumerationPropertyLookedUpFirst(prop, value) ==
    IF IsLiteral(prop.type.of, value.enum)
    THEN Written(<< WriteStartElement(prop.name),
                    WriteValue(StrV(EnumText(prop.type.of, value.enum))),
                    WriteEndElement >>)
    ELSE [calls |-> << >>, thrown |-> "ArgumentException"]

\* _generate_serialize_enumeration_property_as_content
SerializeEnumerationProperty(prop, value) ==
    IF IsLiteral(prop.type.of, value.enum)
    THEN Written(<< WriteStartElement(prop.name),
                    WriteValue(StrV(EnumText(prop.type.of, value.enum))),
                    WriteEndElement >>)
    ELSE [calls |-> << WriteStartElement(prop.name) >>, thrown |-> "ArgumentException"]

\* _generate_serialize_interface_property_as_content
SerializeInterfaceProperty(prop, value) ==
    Then(Written(<< WriteStartElement(prop.name) >>),
         Then(Visit(value), Written(<< WriteEndElement >>)))

\* _generate_serialize_concrete_class_property_as_sequence
SerializeClsProperty(prop, value) ==
    Then(Written(<< WriteStartElement(prop.name) >>),
         Then(ClsToSequence(value.cls, value, 1), Written(<< WriteEndElement >>)))

\* The foreach loop of _generate_serialize_list_property_as_content.
VisitItems(items) ==
    IF items = <<>> THEN Written(<<>>)
    ELSE Then(Visit(Head(items)), VisitItems(Tail(items)))

\* A faulty SerializeListProperty: the element of the property is not ended.
SerializeListPropertyNotEnded(prop, value) ==
    Then(Written(<< WriteStartElement(prop.name) >>), VisitItems(value.list))

\* _generate_serialize_list_property_as_content
SerializeListProperty(prop, value) ==
    Then(Written(<< WriteStartElement(prop.name) >>),
         Then(VisitItems(value.list), Written(<< WriteEndElement >>)))

\* _generate_serialize_property_as_content: nothing for an optional property
\* that is not set.
SerializeProperty(prop, value) ==
    IF prop.optional /\ value = Null THEN Written(<<>>)
    ELSE CASE prop.type.t \in {"bool", "int", "float", "str", "bytes"} ->
                SerializePrimitiveProperty(prop, value)
           [] prop.type.t = "enum" -> SerializeEnumerationProperty(prop, value)
           [] prop.type.t = "iface" -> SerializeInterfaceProperty(prop, value)
           [] prop.type.t = "cls" -> SerializeClsProperty(prop, value)
           [] prop.type.t = "list" -> SerializeListProperty(prop, value)

\* A faulty ClsToSequence: the block of the k-th property comes after the
\* blocks of the properties declared after it.
ClsToSequenceLastFirst(cls, that, k) ==
    IF k > Len(Properties(cls)) THEN Written(<<>>)
    ELSE Then(ClsToSequence(cls, that, k + 1),
              SerializeProperty(Properties(cls)[k], that.slots[Properties(cls)[k].name]))

\* <Cls>ToSequence(that, writer): the blocks of the properties from the
\* k-th on, in declaration order.
ClsToSequence(cls, that, k) ==
    IF k > Len(Properties(cls)) THEN Written(<<>>)
    ELSE Then(SerializeProperty(Properties(cls)[k], that.slots[Properties(cls)[k].name]),
              ClsToSequence(cls, that, k + 1))

\* Visit(that, writer) of the class of that
Visit(that) ==
    Then(Written(<< WriteStartElement(that.cls) >>),
         Then(ClsToSequence(that.cls, that, 1), Written(<< WriteEndElement >>)))

\* Serialize.To(that, writer, prefix, ns)
SerializeTo(that) == Visit(that)

\* ------------------------------------------ the sink (XmlWriter) read back
\* The nodes an XmlReader yields for what an XmlWriter was told to write
\* under WrappedXmlWriter's prefix and namespace.  An element that got no
\* write at all is closed in the short form; one that got only empty writes
\* (an empty string, zero bytes) is closed in the short form by the writers
\* that look at the written characters (w.short) and with an end tag by the
\* writers that look at the calls.

\* The first call from k on that is not a write of an empty text.
RECURSIVE AfterEmptyWrites(_, _)
AfterEmptyWrites(calls, k) ==
    IF k <= Len(calls) /\ calls[k].op = "value" /\ calls[k].text = <<>>
    THEN AfterEmptyWrites(calls, k + 1)
    ELSE k

ClosesShort(calls, k, w) ==
    LET next == AfterEmptyWrites(calls, k + 1)
    IN  /\ next <= Len(calls)
        /\ calls[next].op = "end"
        /\ (next = k + 1 \/ w.short)

RECURSIVE Render(_, _, _, _)
Render(calls, k, open, w) ==
    IF k > Len(calls) THEN <<>>
    ELSE IF calls[k].op = "start" THEN
        IF ClosesShort(calls, k, w)
        THEN <<Element(w.prefix, calls[k].name, w.ns, TRUE)>>
             \o Render(calls, AfterEmptyWrites(calls, k + 1) + 1, open, w)
        ELSE <<Element(w.prefix, calls[k].name, w.ns, FALSE)>>
             \o Render(calls, k + 1, <<calls[k].name>> \o open, w)
    ELSE IF calls[k].op = "end" THEN
        <<EndElement(w.prefix, Head(open), w.ns)>> \o Render(calls, k + 1, Tail(open), w)
    ELSE (IF calls[k].text = <<>> THEN <<>>
          ELSE IF IsWhitespaceText(calls[k].text) THEN <<Whitespace(calls[k].text)>>
          ELSE <<Text(calls[k].text)>>)
         \o Render(calls, k + 1, open, w)

\* ------------------------------------------------------ the generators
\* The entry points of the generators, run on a symbol table.  A text is the
\* sequence of the chunks written: a snippet is one chunk, a newline is the
\* chunk "LF"; the indentation is left out.  An Optional is None or Some(x).

None == <<>>

Some(x) == <<x>>

LF == "LF"

\* Stripped(text): no white space at the ends.
RECURSIVE Stripped(_)
Stripped(text) ==
    IF text # <<>> /\ Head(text) = LF THEN Stripped(Tail(text))
    ELSE IF text # <<>> /\ text[Len(text)] = LF
    THEN Stripped(SubSeq(text, 1, Len(text) - 1))
    ELSE text

\* The loop "for i, block in enumerate(blocks)" that writes "\n\n" between
\* two blocks.
WriteBlocks(blocks) == Join(<<LF, LF>>, blocks)

\* common.Error(node, message, underlying)
CommonError(name, message, underlying) ==
    [name |-> name, message |-> message, underlying |-> underlying]

\* What generate leaves when an assert of the generator fails: the
\* exception is raised through generate, which returns nothing.
Raised(exception) == [raised |-> exception]

IsRaised(result) == "raised" \in DOMAIN result

\* A method of a class: len(method.arguments), and whether
\* method.specified_for is the class.
Method(name, arguments, specified_here) ==
    [name |-> name, arguments |-> arguments, specified_here |-> specified_here]

\* A symbol of the symbol table.  properties are the names of
\* cls.properties, arguments the names of cls.constructor.arguments,
\* mismatched the number of the first constructor arguments whose type
\* annotation differs from that of their property, methods cls.methods.
Symbol(name, kind, is_implementation_specific, interface, properties, arguments, mismatched, methods) ==
    [name |-> name, kind |-> kind,
     is_implementation_specific |-> is_implementation_specific,
     interface |-> interface, properties |-> properties, arguments |-> arguments,
     mismatched |-> mismatched, methods |-> methods]

\* ImplementationKey(f"Xmlization/{part}/{file}")
ImplementationKey(part, file) == <<"Xmlization", part, file>>

RECURSIVE Concat(_)
Concat(lists) == IF lists = <<>> THEN <<>> ELSE Head(lists) \o Concat(Tail(lists))

\* set(x for x in names)
NameSet(names) == { names[k] : k \in 1..Len(names) }

\* The temporary variables "the_{prop.name}" of the properties, and the
\* case of the switch that sets each.
TargetVars(cls) ==
    Concat([k \in 1..Len(cls.properties) |-> <<"the_", cls.properties[k], "= null", LF>>])

PropertyCases(cls) ==
    Concat([k \in 1..Len(cls.properties) |->
              <<"case", cls.properties[k], "the_", cls.properties[k], "=", LF>>])

\* "return new Aas.{name}(...)" with the variable of the property named as
\* the argument, for each constructor argument in its order.
InitArguments(cls) ==
    Concat([k \in 1..Len(cls.arguments) |-> <<"the_", cls.arguments[k]>>])

\* _generate_deserialize_impl_cls_from_sequence(cls): the code and no
\* errors, or no code and the errors of the constructor arguments; the
\* class without constructor arguments is hard-wired before anything else
\* is looked at, and the assert on the names of the properties and of the
\* constructor arguments comes after it.
GenerateClsFromSequence(cls) ==
    IF Len(cls.arguments) = 0
    THEN [code |-> Some(<<"FromSequence", LF, "return new">>), errors |-> None]
    ELSE IF NameSet(cls.properties) # NameSet(cls.arguments)
    THEN Raised("AssertionError")
    ELSE IF cls.mismatched > 0
    THEN [code |-> None,
          errors |-> Some([k \in 1..cls.mismatched |->
                             CommonError(cls.name, "matching types", <<>>)])]
    ELSE [code |-> Some(<<"FromSequence", LF>> \o TargetVars(cls) \o PropertyCases(cls)
                        \o <<"return new">> \o InitArguments(cls)),
          errors |-> None]

\* The assert of _generate_deserialize_impl_cls_from_sequence fails for one
\* of the classes that _generate_deserialize_impl generates the method for.
FromSequenceRaises(symbols) ==
    \E k \in 1..Len(symbols) :
        /\ symbols[k].kind = "ConcreteClass"
        /\ ~symbols[k].is_implementation_specific
        /\ IsRaised(GenerateClsFromSequence(symbols[k]))

\* The snippets of the keys, and the errors of the keys that spec_impls
\* does not hold.
SnippetBlocks(keys, impls) ==
    SelectSeq([k \in 1..Len(keys) |-> IF keys[k] \in impls THEN <<keys[k]>> ELSE <<>>],
              LAMBDA block : block # <<>>)

SnippetErrors(symbol, keys, impls) ==
    SelectSeq([k \in 1..Len(keys) |->
                  IF keys[k] \in impls THEN None
                  ELSE Some(CommonError(symbol.name, "snippet is missing", <<>>))],
              LAMBDA e : e # None)

\* The body of the loop of _generate_deserialize_impl for one symbol: the
\* blocks and the errors that it appends.
DeserializeImplOf(symbol, impls) ==
    LET keys == << ImplementationKey("DeserializeImplementation", <<symbol.name, "from_element">>),
                   ImplementationKey("DeserializeImplementation", <<symbol.name, "from_sequence">>) >>
        sequence == GenerateClsFromSequence(symbol)
    IN  IF symbol.kind \in {"Enumeration", "ConstrainedPrimitive"}
        THEN [blocks |-> <<>>, errors |-> <<>>]
        ELSE IF symbol.is_implementation_specific
        THEN [blocks |-> SnippetBlocks(keys, impls),
              errors |-> [k \in 1..Len(SnippetErrors(symbol, keys, impls)) |->
                            SnippetErrors(symbol, keys, impls)[k][1]]]
        ELSE [blocks |->
                (IF symbol.kind = "ConcreteClass" /\ sequence.errors = None
                 THEN <<sequence.code[1]>> ELSE <<>>)
                \o (IF symbol.interface THEN <<<<"InterfaceFromElement">>>> ELSE <<>>)
                \o (IF symbol.kind = "ConcreteClass"
                    THEN <<<<"FromElement">>>> ELSE <<>>),
              errors |->
                IF symbol.kind = "ConcreteClass" /\ sequence.errors # None
                THEN <<CommonError(symbol.name, "Failed to generate", sequence.errors[1])>>
                ELSE <<>>]

\* _generate_deserialize_impl(symbol_table, spec_impls)
GenerateDeserializeImpl(symbols, impls) ==
    LET errors == Concat([k \in 1..Len(symbols) |-> DeserializeImplOf(symbols[k], impls).errors])
        blocks == <<<<"SkipNoneWhitespaceAndComments">>, <<"ReadWholeContentAsBase64">>,
                    <<"TryElementName">>>>
                  \o Concat([k \in 1..Len(symbols) |->
                                DeserializeImplOf(symbols[k], impls).blocks])
    IN  IF Len(errors) > 0 THEN [code |-> None, errors |-> Some(errors)]
        ELSE [code |-> Some(Stripped(<<"class DeserializeImplementation {", LF>>
                                     \o WriteBlocks(blocks) \o <<LF, "}">>)),
              errors |-> None]

\* The body of the loop of _generate_visitor for one symbol.
VisitorOf(symbol, impls) ==
    LET keys == << ImplementationKey("VisitorWithWriter", <<"visit", symbol.name>>),
                   ImplementationKey("VisitorWithWriter", <<symbol.name, "to_sequence">>) >>
    IN  IF symbol.kind # "ConcreteClass" THEN [blocks |-> <<>>, errors |-> <<>>]
        ELSE IF symbol.is_implementation_specific
        THEN [blocks |-> SnippetBlocks(keys, impls),
              errors |-> [k \in 1..Len(SnippetErrors(symbol, keys, impls)) |->
                            SnippetErrors(symbol, keys, impls)[k][1]]]
        ELSE [blocks |-> <<<<"ToSequence">>, <<"Visit">>>>, errors |-> <<>>]

\* _generate_visitor(symbol_table, spec_impls)
GenerateVisitor(symbols, impls) ==
    LET errors == Concat([k \in 1..Len(symbols) |-> VisitorOf(symbols[k], impls).errors])
        blocks == Concat([k \in 1..Len(symbols) |-> VisitorOf(symbols[k], impls).blocks])
    IN  IF Len(errors) > 0 THEN [code |-> None, errors |-> Some(errors)]
        ELSE [code |-> Some(Stripped(<<"class VisitorWithWriter {", LF>>
                                     \o WriteBlocks(blocks) \o <<LF, "}">>)),
              errors |-> None]

\* A faulty XmlizationFile: the list of the errors is returned whether it
\* is empty or not.
XmlizationFileErrorsAlways(deserialize_impl, visitor) ==
    [code |-> None,
     errors |-> Some((IF deserialize_impl.errors # None
                      THEN deserialize_impl.errors[1] ELSE <<>>)
                     \o (IF visitor.errors # None THEN visitor.errors[1] ELSE <<>>))]

\* The end of generate of csharp/xmlization: the errors of the two parts,
\* or the text of the file.
XmlizationFile(deserialize_impl, visitor) ==
    LET errors == (IF deserialize_impl.errors # None THEN deserialize_impl.errors[1] ELSE <<>>)
                  \o (IF visitor.errors # None THEN visitor.errors[1] ELSE <<>>)
        xmlization_blocks ==
            (IF deserialize_impl.errors # None THEN <<>> ELSE <<deserialize_impl.code[1]>>)
            \o <<<<"class Exception">>, <<"class Deserialize">>>>
            \o (IF visitor.errors # None THEN <<>> ELSE <<visitor.code[1]>>)
            \o <<<<"class WrappedXmlWriter">>, <<"class Serialize">>>>
        blocks ==
            << <<"WARNING">>, <<"using">>, <<"using Aas">>,
               Stripped(<<"namespace {", LF>> \o WriteBlocks(xmlization_blocks)
                        \o <<LF, "}", LF, "}">>),
               <<"WARNING">> >>
    IN  IF Len(errors) > 0 THEN [code |-> None, errors |-> Some(errors)]
        ELSE [code |-> Some(WriteBlocks(blocks) \o <<LF>>), errors |-> None]

\* generate(symbol_table, namespace, spec_impls) of csharp/xmlization
GenerateXmlization(symbols, impls) ==
    IF FromSequenceRaises(symbols) THEN Raised("AssertionError")
    ELSE XmlizationFile(GenerateDeserializeImpl(symbols, impls),
                        GenerateVisitor(symbols, impls))

\* The methods of cls that the loop over cls.methods does not skip.
SpecifiedMethods(cls) == SelectSeq(cls.methods, LAMBDA method : method.specified_here)

\* arg_codes of a method: one code for each argument.
ArgCodes(method) == [k \in 1..method.arguments |-> <<"arg">>]

\* The branches on len(arg_codes) in the loop over the methods: more than
\* two, exactly one, and the branch of the rest with its assert that there
\* is none.
SignatureOf(method) ==
    IF Len(ArgCodes(method)) > 2
    THEN Some(<<"public", method.name, "(", LF>>
              \o Join(<<",", LF>>, ArgCodes(method)) \o <<");">>)
    ELSE IF Len(ArgCodes(method)) = 1
    THEN Some(<<"public", method.name, "(">> \o ArgCodes(method)[1] \o <<");">>)
    ELSE IF Len(ArgCodes(method)) = 0
    THEN Some(<<"public", method.name, "();">>)
    ELSE None

\* A faulty SignatureOf: a method with arguments gets the signature of a
\* method without.
SignatureWithoutArguments(method) == Some(<<"public", method.name, "();">>)

\* The getter and the setter of each property of cls; none of the
\* properties of the symbols is inherited and none is a list.
GetterAndSetterBlocks(cls) ==
    Concat([k \in 1..Len(cls.properties) |->
              << <<"getter", cls.properties[k], "();">>,
                 <<"setter", cls.properties[k], "();">> >>])

\* The signature blocks of the methods specified for cls.
SignatureBlocks(cls) ==
    [k \in 1..Len(SpecifiedMethods(cls)) |-> SignatureOf(SpecifiedMethods(cls)[k])[1]]

\* The assert of the loop over the methods fails for a method of cls.
InterfaceRaises(cls) ==
    \E k \in 1..Len(SpecifiedMethods(cls)) : SignatureOf(SpecifiedMethods(cls)[k]) = None

\* _generate_interface(cls) of java/structure: the code, never an error.
GenerateInterface(cls) ==
    IF InterfaceRaises(cls) THEN Raised("AssertionError")
    ELSE [code |-> Some(Stripped(<<"public interface", cls.name, LF, "{", LF>>
                                 \o WriteBlocks(
                                      IF Len(GetterAndSetterBlocks(cls)
                                             \o SignatureBlocks(cls)) = 0
                                      THEN <<<<"// Intentionally empty.">>>>
                                      ELSE GetterAndSetterBlocks(cls)
                                           \o SignatureBlocks(cls))
                                 \o <<LF, "}">>)),
          error |-> None]

\* The assert of _generate_interface fails for one of the abstract classes.
StructureRaises(symbols) ==
    \E k \in 1..Len(symbols) :
        /\ symbols[k].kind = "AbstractClass"
        /\ IsRaised(GenerateInterface(symbols[k]))

\* The body of the loop of generate of java/structure for one symbol.
StructureOf(our_type) ==
    IF our_type.kind # "AbstractClass" THEN [blocks |-> <<>>, errors |-> <<>>]
    ELSE IF GenerateInterface(our_type).error # None
    THEN [blocks |-> <<>>,
          errors |-> <<CommonError(our_type.name, "Failed to generate the interface",
                                   <<GenerateInterface(our_type).error[1]>>)>>]
    ELSE [blocks |-> <<GenerateInterface(our_type).code[1]>>, errors |-> <<>>]

\* generate(symbol_table, package, spec_impls) of java/structure
GenerateStructure(symbols, impls) ==
    LET errors == Concat([k \in 1..Len(symbols) |-> StructureOf(symbols[k]).errors])
        code_blocks == <<<<"public interface IClass">>>>
                       \o Concat([k \in 1..Len(symbols) |-> StructureOf(symbols[k]).blocks])
        blocks == << <<"WARNING">>,
                     Stripped(<<"package", LF, LF>> \o WriteBlocks(code_blocks)
                              \o <<LF, "// package">>),
                     <<"WARNING">> >>
    IN  IF StructureRaises(symbols) THEN Raised("AssertionError")
        ELSE IF Len(errors) > 0 THEN [code |-> None, errors |-> Some(errors)]
        ELSE [code |-> Some(WriteBlocks(blocks) \o <<LF>>), errors |-> None]

\* generate(package) of java/reporting: the text of the file.
GenerateReporting ==
    LET blocks == << <<"interface Segment">>, <<"class NameSegment">>,
                     <<"class IndexSegment">>, <<"variableNameRe">>,
                     <<"generateJsonPath">>, <<"escapeForXPath">>,
                     <<"generateRelativeXPath">>, <<"class Error">> >>
        file == << <<"WARNING">>,
                   Stripped(<<"package", LF, "class Reporting", LF, "{", LF>>
                            \o WriteBlocks(blocks) \o <<LF, "}", LF, LF, "// package">>),
                   <<"WARNING">> >>
    IN  WriteBlocks(file) \o <<LF>>

\* ------------------------------------------------- reporting: the driver

\* Names of the name segments of the lists: identifiers (a letter, an
\* underscore followed by a digit, a letter followed by an underscore) and
\* names that are none (a leading digit, the empty name, a quoted letter).
PathNames ==
    { <<"a">>, <<"_", "1">>, <<"Z", "_">>,
      <<"1", "a">>, <<>>, <<"a", "QUOTE">> }

PathSegments ==
    { NameSegment(n) : n \in PathNames } \cup { IndexSegment(i) : i \in 0..MaxIndex }

\* [Name("items"), Index(2), Name("value")]
ExampleSegments ==
    << NameSegment(<<"i", "t", "e", "m", "s">>),
       IndexSegment(2),
       NameSegment(<<"v", "a", "l", "u", "e">>) >>

\* Characters of the names rendered alone: the seven escaped characters,
\* a letter and a character outside the identifier syntax that is not escaped.
EscChars == {"TAB", "BS", "LF", "CR", "FF", "QUOTE", "BACKSLASH", "a", "-"}

EscNames == SeqsUpTo(EscChars, MaxEscLen)

NoText == <<"<none>">>

\* ------------------------------------------------------------- drivers

NoRoot == [op |-> "none", sym |-> "", ns |-> NoNs]

NoWriter == [prefix |-> "", ns |-> NoNs, short |-> FALSE]

NotCalled == Thrown("not called", 0)

\* generate was not called.
NotGenerated == [code |-> <<"<not generated>">>, errors |-> <<>>]

GeneratorIdle ==
    /\ symbol_table = <<>>
    /\ spec_impls = {}
    /\ generated = NotGenerated

XmlizationIdle ==
    /\ root = NoRoot
    /\ inst = Null
    /\ writer = NoWriter
    /\ sink = Written(<<>>)
    /\ doc = <<>>
    /\ res = NotCalled
    /\ unread = <<>>
    /\ memoryStream = <<>>

ReportingIdle ==
    /\ segments = <<>>
    /\ rendered = NoText
    /\ failure = NoError

\* ---- reporting

InitPath ==
    /\ pc = "start"
    /\ segments \in SeqsUpTo(PathSegments, MaxSegments)
                    \cup { <<NameSegment(n)>> : n \in EscNames }
                    \cup {ExampleSegments}
    /\ rendered = NoText
    /\ failure = NoError
    /\ XmlizationIdle
    /\ passes = 0
    /\ GeneratorIdle

RenderJsonPath ==
    /\ pc = "start"
    /\ rendered' = generateJsonPath(segments)
    /\ pc' = "json"
    /\ UNCHANGED <<segments, failure, root, inst, writer, sink, doc, res, unread, memoryStream, passes,
                 symbol_table, spec_impls, generated>>

NextPath == RenderJsonPath

SpecPath == InitPath /\ [][NextPath]_vars

\* ---- reporting: an error handed up through the frames and rendered

\* The segments an error is given.  The names: those of the example, a
\* letter, the empty name, each character that escapeForXPath replaces, a
\* text that is an entity already, and a name with a slash inside.
XPathSegments ==
    { NameSegment(n) :
        n \in { ExampleSegments[1].name, ExampleSegments[3].name,
                <<"a">>, <<>>,
                <<"&">>, <<"/">>, <<"<">>, <<">">>, <<"QUOTE">>, <<"'">>,
                <<"&", "l", "t", ";">>, <<"a", "/", "b">> } }
    \cup { IndexSegment(i) : i \in 0..MaxIndex }

\* new Error(cause): no segments yet.
InitReport ==
    /\ pc = "created"
    /\ failure \in { Error(kind, "", "", NoName) :
                      kind \in {"NamespaceMismatch", "UnexpectedEndOfDocument"} }
    /\ segments = <<>>
    /\ rendered = NoText
    /\ XmlizationIdle
    /\ passes = 0
    /\ GeneratorIdle

\* A frame that the failed call returns through prepends its segment.
CallPrependSegment ==
    /\ pc = "created"
    /\ Len(segments) < MaxSegments
    /\ \E segment \in XPathSegments :
        /\ failure' = PrependSegment(failure, segment)
        /\ segments' = Append(segments, segment)
    /\ UNCHANGED <<pc, rendered, root, inst, writer, sink, doc, res, unread, memoryStream, passes,
                 symbol_table, spec_impls, generated>>

\* The caller renders the path of the error: generateRelativeXPath(error.getPathSegments()).
RenderRelativeXPath ==
    /\ pc = "created"
    /\ rendered' = generateRelativeXPath(failure.segments)
    /\ pc' = "xpath"
    /\ UNCHANGED <<segments, failure, root, inst, writer, sink, doc, res, unread, memoryStream, passes,
                 symbol_table, spec_impls, generated>>

NextReport == CallPrependSegment \/ RenderRelativeXPath

SpecReport == InitReport /\ [][NextReport]_vars

\* ---- xmlization: ReadWholeContentAsBase64, call by call

\* The reader stands on the base64 text of an element; the stream is new.
InitBase64 ==
    /\ pc = "reading"
    /\ \E bytes \in SeqsUpTo({0, 65, 255}, MaxContent) :
        /\ doc = << Element("", "data", NoNs, FALSE),
                    Text(Base64Text(bytes)),
                    EndElement("", "data", NoNs) >>
        /\ unread = ParseBase64(Base64Text(bytes)).value
    /\ memoryStream = <<>>
    /\ root = NoRoot
    /\ inst = Null
    /\ writer = NoWriter
    /\ sink = Written(<<>>)
    /\ res = NotCalled
    /\ ReportingIdle
    /\ passes = 0
    /\ GeneratorIdle

\* A faulty pass of the loop: the bytes are written at the start of the stream.
ReadContentAsBase64WrittenFirst ==
    /\ pc = "reading"
    /\ \E readBytes \in 1..Min(BufferSize, Len(unread)) :
        /\ memoryStream' = SubSeq(unread, 1, readBytes) \o memoryStream
        /\ unread' = SubSeq(unread, readBytes + 1, Len(unread))
    /\ UNCHANGED <<pc, segments, rendered, failure, root, inst, writer, sink, doc, res, passes,
                 symbol_table, spec_impls, generated>>

\* One pass of the while loop: reader.ReadContentAsBase64(buffer, 0, 1024)
\* hands over readBytes > 0 bytes, as many as the reader has at hand and at
\* most the 1024 asked for, and stream.Write(buffer, 0, readBytes) writes them.
ReadContentAsBase64 ==
    /\ pc = "reading"
    /\ \E readBytes \in 1..Min(BufferSize, Len(unread)) :
        /\ memoryStream' = memoryStream \o SubSeq(unread, 1, readBytes)
        /\ unread' = SubSeq(unread, readBytes + 1, Len(unread))
    /\ UNCHANGED <<pc, segments, rendered, failure, root, inst, writer, sink, doc, res, passes,
                 symbol_table, spec_impls, generated>>

\* The reader hands over no byte: the loop ends and stream.ToArray() is
\* returned, the reader past the content.
ToArray ==
    /\ pc = "reading"
    /\ unread = <<>>
    /\ res' = Got(BytesV(memoryStream), ContentEnd(doc, 2))
    /\ pc' = "read"
    /\ UNCHANGED <<segments, rendered, failure, root, inst, writer, sink, doc, unread, memoryStream, passes,
                 symbol_table, spec_impls, generated>>

NextBase64 == ReadContentAsBase64 \/ ToArray

SpecBase64 == InitBase64 /\ [][NextBase64]_vars

\* ---- generators: generate is called on a symbol table

\* The symbols: an enumeration, a constrained primitive, abstract classes
\* whose methods have no, one, two and three arguments, one of them
\* implementation-specific, concrete classes with and without constructor
\* arguments, in the order of their properties and in another, an
\* implementation-specific concrete class, concrete classes with one and
\* with two constructor arguments of another type than their properties,
\* and concrete classes whose properties are not all constructor
\* arguments.
GeneratorSymbols ==
    { Symbol("Color", "Enumeration", FALSE, FALSE, <<>>, <<>>, 0, <<>>),
      Symbol("Id", "ConstrainedPrimitive", FALSE, FALSE, <<>>, <<>>, 0, <<>>),
      Symbol("Shape", "AbstractClass", FALSE, TRUE, <<"name">>, <<>>, 0,
             <<Method("area", 0, TRUE), Method("scale", 1, TRUE),
               Method("descend", 2, FALSE)>>),
      Symbol("Lang", "AbstractClass", TRUE, TRUE, <<>>, <<>>, 0,
             <<Method("translate", 3, TRUE)>>),
      Symbol("Pair", "AbstractClass", FALSE, TRUE, <<>>, <<>>, 0,
             <<Method("area", 0, TRUE), Method("swap", 2, TRUE)>>),
      Symbol("Circle", "ConcreteClass", FALSE, FALSE, <<"radius">>, <<"radius">>, 0, <<>>),
      Symbol("Label", "ConcreteClass", FALSE, FALSE,
             <<"text", "size">>, <<"size", "text">>, 0, <<>>),
      Symbol("Empty", "ConcreteClass", FALSE, TRUE, <<>>, <<>>, 0, <<>>),
      Symbol("Custom", "ConcreteClass", TRUE, FALSE, <<"radius">>, <<"radius">>, 0, <<>>),
      Symbol("Odd", "ConcreteClass", FALSE, FALSE,
             <<"text", "size">>, <<"text", "size">>, 1, <<>>),
      Symbol("Odder", "ConcreteClass", FALSE, FALSE,
             <<"text", "size">>, <<"text", "size">>, 2, <<>>),
      Symbol("Bare", "ConcreteClass", FALSE, FALSE, <<"radius">>, <<>>, 0, <<>>),
      Symbol("Lopsided", "ConcreteClass", FALSE, FALSE,
             <<"text", "size">>, <<"text">>, 0, <<>>) }

\* The keys of the snippets of the implementation-specific symbols.
SnippetKeys ==
    { ImplementationKey("DeserializeImplementation", <<n, f>>) :
        n \in {"Lang", "Custom"}, f \in {"from_element", "from_sequence"} }
    \cup { ImplementationKey("VisitorWithWriter", <<"visit", "Custom">>),
           ImplementationKey("VisitorWithWriter", <<"Custom", "to_sequence">>) }

InitGenerate ==
    /\ pc = "start"
    /\ symbol_table \in { t \in SeqsUpTo(GeneratorSymbols, MaxSymbols) :
                            \A j, k \in 1..Len(t) : t[j].name = t[k].name => j = k }
    /\ spec_impls \in SUBSET SnippetKeys
    /\ generated = NotGenerated
    /\ passes = 0
    /\ ReportingIdle
    /\ XmlizationIdle

CallGenerateXmlization ==
    /\ pc = "start"
    /\ generated' = GenerateXmlization(symbol_table, spec_impls)
    /\ pc' = "xmlization"
    /\ UNCHANGED <<segments, rendered, failure, root, inst, writer, sink, doc, res,
                   unread, memoryStream, passes, symbol_table, spec_impls>>

CallGenerateStructure ==
    /\ pc = "start"
    /\ generated' = GenerateStructure(symbol_table, spec_impls)
    /\ pc' = "structure"
    /\ UNCHANGED <<segments, rendered, failure, root, inst, writer, sink, doc, res,
                   unread, memoryStream, passes, symbol_table, spec_impls>>

CallGenerateReporting ==
    /\ pc = "start"
    /\ generated' = GenerateReporting
    /\ pc' = "reporting"
    /\ UNCHANGED <<segments, rendered, failure, root, inst, writer, sink, doc, res,
                   unread, memoryStream, passes, symbol_table, spec_impls>>

NextGenerate == CallGenerateXmlization \/ CallGenerateStructure \/ CallGenerateReporting

SpecGenerate == InitGenerate /\ [][NextGenerate]_vars

\* ---- xmlization: entry points

NsA == "urn:a"

\* The end of Deserialize.<Name>From, after FromElement gave the result.
\* An error is thrown as Xmlization.Exception with its path and its cause,
\* which the result with the error stands for; "result ?? throw" otherwise.
ResultOrThrow(result) ==
    IF result.status = "ok" /\ result.value = Null
    THEN Thrown("InvalidOperationException: Unexpected output null when error is null",
                result.pos)
    ELSE result

\* Deserialize.<Cls>From and Deserialize.<Interface>From call the
\* FromElement method of the class or the interface.
CallEntry(r, d) ==
    ResultOrThrow(IF r.op = "interface" THEN InterfaceFromElement(r.sym, d, 1, r.ns)
                  ELSE ClsFromElement(r.sym, d, 1, r.ns))

InterfacesOf(cls) ==
    { i \in InterfaceNames : \E k \in 1..Len(Implementers(i)) : Implementers(i)[k] = cls }

\* ---- xmlization: documents that the reader fails on
\* The entry point of a class is called on a document that is the start tag
\* of the class, the element of one property that has a primitive type or
\* is an enumeration, and in it nodes of content among which the reader may
\* fail.

\* What the reader throws while content is read: the two exceptions of the
\* catch clauses, and one of the underlying stream.
Faults == {"FormatException", "XmlException", "IOException"}

FaultNodes ==
    { Text(<<"1">>), Text(<<"x">>), Text(EnumText("color", "Red")), Comment,
      Element("", "bogus", NoNs, TRUE) }
    \cup { Fault(x) : x \in Faults }

\* The properties of cls whose content is read by the reader as a text.
ContentProperties(cls) ==
    { n \in PropertyNames(cls) :
        PropertyByName(cls, n).type.t \in {"bool", "int", "float", "str", "bytes", "enum"} }

\* The documents with the element of the property n of cls.
FaultDocsOf(cls, n) ==
    { <<Element("", cls, NoNs, FALSE), Element("", n, NoNs, FALSE)>> \o content \o ends :
        content \in SeqsUpTo(FaultNodes, MaxFaultContent),
        ends \in { <<>>, <<EndElement("", n, NoNs), EndElement("", cls, NoNs)>> } }

FaultDocs(cls) ==
    UNION { FaultDocsOf(cls, n) : n \in ContentProperties(cls) }
    \cup { <<Element("", cls, NoNs, FALSE), Element("", n, NoNs, TRUE),
             EndElement("", cls, NoNs)>> : n \in ContentProperties(cls) }

InitFault ==
    /\ pc = "document given"
    /\ root \in { [op |-> "element", sym |-> cls, ns |-> NoNs] :
                    cls \in {"circle", "leaf", "scalars"} }
    /\ doc \in FaultDocs(root.sym)
    /\ res = Ok(Null, 1)
    /\ inst = Null
    /\ writer = NoWriter
    /\ sink = Written(<<>>)
    /\ unread = <<>>
    /\ memoryStream = <<>>
    /\ ReportingIdle
    /\ passes = 0
    /\ GeneratorIdle

\* Deserialize.<Cls>From is called on the document.
DeserializeFaulty ==
    /\ pc = "document given"
    /\ res' = CallEntry(root, doc)
    /\ pc' = "deserialized"
    /\ UNCHANGED <<segments, rendered, failure, root, inst, writer, sink, doc,
                   unread, memoryStream, passes, symbol_table, spec_impls, generated>>

NextFault == DeserializeFaulty

SpecFault == InitFault /\ [][NextFault]_vars

\* ---- xmlization: the elements of the properties in any order
\* The entry point of a class is called on a document that is the element
\* of the class and in it elements of its properties, in any order and
\* any of them more than once, with content that is read and content that
\* is not.

OrderTexts == { <<"1">>, <<"2">>, <<"x">> }

\* The elements of the properties of cls: self-closing, and with a text.
PropertyElements(cls) ==
    { <<Element("", n, NoNs, TRUE)>> : n \in ContentProperties(cls) }
    \cup { <<Element("", n, NoNs, FALSE), Text(t), EndElement("", n, NoNs)>> :
             n \in ContentProperties(cls), t \in OrderTexts }

OrderDocs(cls) ==
    { <<Element("", cls, NoNs, FALSE)>> \o Concat(elements) \o <<EndElement("", cls, NoNs)>> :
        elements \in SeqsUpTo(PropertyElements(cls), MaxPropertyElements) }

InitOrder ==
    /\ pc = "document given"
    /\ root \in { [op |-> "element", sym |-> cls, ns |-> NoNs] :
                    cls \in {"circle", "leaf", "scalars"} }
    /\ doc \in OrderDocs(root.sym)
    /\ res = Ok(Null, 1)
    /\ inst = Null
    /\ writer = NoWriter
    /\ sink = Written(<<>>)
    /\ unread = <<>>
    /\ memoryStream = <<>>
    /\ ReportingIdle
    /\ passes = 0
    /\ GeneratorIdle

\* Deserialize.<Cls>From is called on the document.
DeserializeAnyOrder ==
    /\ pc = "document given"
    /\ res' = CallEntry(root, doc)
    /\ pc' = "deserialized"
    /\ UNCHANGED <<segments, rendered, failure, root, inst, writer, sink, doc,
                   unread, memoryStream, passes, symbol_table, spec_impls, generated>>

NextOrder == DeserializeAnyOrder

SpecOrder == InitOrder /\ [][NextOrder]_vars

\* ---- xmlization: the elements in an interface property
\* The entry point of an interface, or that of a class whose first element
\* is that of an interface property, is called on a document in which
\* the nodes that follow are elements of implementers and of others, end
\* tags and a comment.

\* Most nodes after the start of the document.
MaxInnerNodes == 3

InnerNodes ==
    { Element("", "square", NoNs, e) : e \in BOOLEAN }
    \cup { Element("", "circle", NoNs, FALSE), Element("", "bogus", NoNs, TRUE),
           Element("p", "square", NsA, TRUE),
           EndElement("", "square", NoNs), EndElement("", "shape", NoNs),
           EndElement("", "holder", NoNs), Comment }

InnerRoots ==
    { [op |-> "interface", sym |-> "shape", ns |-> n] : n \in {NoNs, NsA} }
    \cup { [op |-> "element", sym |-> "holder", ns |-> NoNs] }

\* The start of the documents of a call.
InnerStart(r) ==
    IF r.op = "interface" THEN <<>>
    ELSE <<Element("", r.sym, NoNs, FALSE), Element("", "shape", NoNs, FALSE)>>

InitInner ==
    /\ pc = "document given"
    /\ root \in InnerRoots
    /\ doc \in { InnerStart(root) \o nodes : nodes \in SeqsUpTo(InnerNodes, MaxInnerNodes) }
    /\ res = Ok(Null, 1)
    /\ inst = Null
    /\ writer = NoWriter
    /\ sink = Written(<<>>)
    /\ unread = <<>>
    /\ memoryStream = <<>>
    /\ ReportingIdle
    /\ passes = 0
    /\ GeneratorIdle

\* Deserialize.<Interface>From or Deserialize.<Cls>From is called on the
\* document.
DeserializeInner ==
    /\ pc = "document given"
    /\ res' = CallEntry(root, doc)
    /\ pc' = "deserialized"
    /\ UNCHANGED <<segments, rendered, failure, root, inst, writer, sink, doc,
                   unread, memoryStream, passes, symbol_table, spec_impls, generated>>

NextInner == DeserializeInner

SpecInner == InitInner /\ [][NextInner]_vars

\* ---- xmlization: the loops of the generated code, pass by pass
\* The reader is started on a run of nodes; SkipNoneWhitespaceAndComments
\* runs, and then, as in <Cls>FromSequence, the loop over the elements of
\* the properties of a class, or, as in the snippet of a list property, the
\* loop over the items.  res holds the reader and the locals of the loop
\* while it runs, and what the loop leaves at its end.

Running(value, p) ==
    [status |-> "running", value |-> value, error |-> NoError, thrown |-> "", pos |-> p]

\* The list property of a class.
ListProperty(cls) ==
    Properties(cls)[CHOOSE k \in 1..Len(Properties(cls)) : Properties(cls)[k].type.t = "list"]

LoopRoots ==
    { [op |-> "skip", sym |-> "", ns |-> NoNs],
      [op |-> "sequence", sym |-> "leaf", ns |-> NoNs],
      [op |-> "list", sym |-> "holder", ns |-> NoNs] }

\* The nodes of the runs: elements of a property, of a class and of neither,
\* with and without content, two end elements, a text, white space and a
\* comment.
LoopNodes ==
    { Element("", n, NoNs, e) : n \in {"text", "square", "bogus"}, e \in BOOLEAN }
    \cup { EndElement("", n, NoNs) : n \in {"text", "square"} }
    \cup { Text(<<"x">>), Whitespace(<<" ">>), Comment }

InitLoops ==
    /\ pc = "skip"
    /\ root \in LoopRoots
    /\ doc \in SeqsUpTo(LoopNodes, MaxLoopDoc)
    /\ res = Running(Null, 1)
    /\ passes = 0
    /\ inst = Null
    /\ writer = NoWriter
    /\ sink = Written(<<>>)
    /\ unread = <<>>
    /\ memoryStream = <<>>
    /\ ReportingIdle
    /\ GeneratorIdle

\* while (!reader.EOF && (NodeType is None, Whitespace or Comment))
SkipGoesOn ==
    /\ ~EOF(doc, res.pos)
    /\ Current(doc, res.pos).kind \in {"None", "Whitespace", "Comment"}

\* A faulty pass of the loop of SkipNoneWhitespaceAndComments: nothing is read.
SkipPassNoRead ==
    /\ pc = "skip"
    /\ SkipGoesOn
    /\ passes' = passes + 1
    /\ UNCHANGED <<pc, segments, rendered, failure, root, inst, writer, sink, doc, res,
                   unread, memoryStream, symbol_table, spec_impls, generated>>

\* One pass of the loop of SkipNoneWhitespaceAndComments: reader.Read().
SkipPass ==
    /\ pc = "skip"
    /\ SkipGoesOn
    /\ res' = [res EXCEPT !.pos = Read(doc, res.pos)]
    /\ passes' = passes + 1
    /\ UNCHANGED <<pc, segments, rendered, failure, root, inst, writer, sink, doc,
                   unread, memoryStream, symbol_table, spec_impls, generated>>

\* The loop of SkipNoneWhitespaceAndComments is left and the method returns.
SkipReturns ==
    /\ pc = "skip"
    /\ ~SkipGoesOn
    /\ root.op = "skip"
    /\ res' = Ok(Null, res.pos)
    /\ pc' = "left"
    /\ UNCHANGED <<segments, rendered, failure, root, inst, writer, sink, doc,
                   unread, memoryStream, passes, symbol_table, spec_impls, generated>>

\* <Cls>FromSequence after the skip: the error at the end of file, else the
\* loop over the elements of the properties is reached with no property set.
EnterPropertyLoop ==
    /\ pc = "skip"
    /\ ~SkipGoesOn
    /\ root.op = "sequence"
    /\ IF EOF(doc, res.pos)
       THEN /\ res' = Failed(Error("UnexpectedEndOfDocument", "property element",
                                   root.sym, NoName), res.pos)
            /\ pc' = "left"
       ELSE /\ res' = Running([n \in PropertyNames(root.sym) |-> Null], res.pos)
            /\ pc' = "property"
    /\ UNCHANGED <<segments, rendered, failure, root, inst, writer, sink, doc,
                   unread, memoryStream, passes, symbol_table, spec_impls, generated>>

\* What one pass of the loop over the elements of the properties leaves:
\* the error of the name, of the value or of the end element, or the value
\* assigned and the reader after the skipped nodes, the loop left by the
\* break at the end of file.
PropertyPassed(cls, d, p, ns, the, elementName, isEmptyProperty, value, ended) ==
    IF elementName.error # NoError THEN Failed(elementName.error, p)
    ELSE IF value.status # "ok" THEN value
    ELSE IF ended.status # "ok" THEN ended
    ELSE IF EOF(d, SkipNoneWhitespaceAndComments(d, ended.pos))
    THEN Ok([the EXCEPT ![elementName.name[2]] = value.value],
            SkipNoneWhitespaceAndComments(d, ended.pos))
    ELSE Running([the EXCEPT ![elementName.name[2]] = value.value],
                 SkipNoneWhitespaceAndComments(d, ended.pos))

\* The end of the element of the property whose value was read.
PropertyEnded(cls, d, ns, elementName, isEmptyProperty, value) ==
    IF value.status # "ok" THEN value
    ELSE IF isEmptyProperty THEN Ok(Null, value.pos)
    ELSE ReadEndElement(cls, d, SkipNoneWhitespaceAndComments(d, value.pos), ns, elementName)

\* The value of the property of the element the reader stands on.
PropertyValue(cls, d, p, ns, elementName) ==
    IF elementName.error # NoError THEN Failed(elementName.error, p)
    ELSE SwitchElementName(cls, d, Read(d, p), Current(d, p).empty, ns, elementName.name)

\* One pass of the loop over the elements of the properties.
PropertyPass ==
    /\ pc = "property"
    /\ Current(doc, res.pos).kind = "Element"
    /\ res' = PropertyPassed(root.sym, doc, res.pos, root.ns, res.value,
                TryElementName(Current(doc, res.pos), root.ns),
                Current(doc, res.pos).empty,
                PropertyValue(root.sym, doc, res.pos, root.ns,
                              TryElementName(Current(doc, res.pos), root.ns)),
                PropertyEnded(root.sym, doc, root.ns,
                              TryElementName(Current(doc, res.pos), root.ns).name,
                              Current(doc, res.pos).empty,
                              PropertyValue(root.sym, doc, res.pos, root.ns,
                                            TryElementName(Current(doc, res.pos), root.ns))))
    /\ pc' = IF res'.status = "running" THEN "property" ELSE "left"
    /\ passes' = passes + 1
    /\ UNCHANGED <<segments, rendered, failure, root, inst, writer, sink, doc,
                   unread, memoryStream, symbol_table, spec_impls, generated>>

\* The reader stands on no element: the loop over the elements of the
\* properties is left.
LeavePropertyLoop ==
    /\ pc = "property"
    /\ Current(doc, res.pos).kind # "Element"
    /\ res' = Ok(res.value, res.pos)
    /\ pc' = "left"
    /\ UNCHANGED <<segments, rendered, failure, root, inst, writer, sink, doc,
                   unread, memoryStream, passes, symbol_table, spec_impls, generated>>

\* The snippet of a list property after the skip: the loop over the items
\* is reached with the empty list.
EnterListLoop ==
    /\ pc = "skip"
    /\ ~SkipGoesOn
    /\ root.op = "list"
    /\ res' = Running(ListV(<<>>), res.pos)
    /\ pc' = "list"
    /\ UNCHANGED <<segments, rendered, failure, root, inst, writer, sink, doc,
                   unread, memoryStream, passes, symbol_table, spec_impls, generated>>

\* What one pass of the loop over the items leaves: the error of the item
\* with its index, or the item added and the reader after the skipped nodes.
ItemPassed(d, target, item) ==
    IF item.status = "error"
    THEN Failed(PrependSegment(item.error, IndexSegment(Len(target))), item.pos)
    ELSE IF item.status = "thrown" THEN item
    ELSE IF item.value = Null
    THEN Thrown("InvalidOperationException: Unexpected item null when error null", item.pos)
    ELSE Running(ListV(Append(target, item.value)),
                 SkipNoneWhitespaceAndComments(d, item.pos))

\* One pass of the loop over the items.
ItemPass ==
    /\ pc = "list"
    /\ Current(doc, res.pos).kind = "Element"
    /\ res' = ItemPassed(doc, res.value.list,
                DeserializeItem(ListProperty(root.sym).type.of, doc, res.pos, root.ns))
    /\ pc' = IF res'.status = "running" THEN "list" ELSE "left"
    /\ passes' = passes + 1
    /\ UNCHANGED <<segments, rendered, failure, root, inst, writer, sink, doc,
                   unread, memoryStream, symbol_table, spec_impls, generated>>

\* The reader stands on no element: the loop over the items is left.
LeaveListLoop ==
    /\ pc = "list"
    /\ Current(doc, res.pos).kind # "Element"
    /\ res' = Ok(res.value, res.pos)
    /\ pc' = "left"
    /\ UNCHANGED <<segments, rendered, failure, root, inst, writer, sink, doc,
                   unread, memoryStream, passes, symbol_table, spec_impls, generated>>

NextLoops ==
    \/ SkipPass
    \/ SkipReturns
    \/ EnterPropertyLoop
    \/ PropertyPass
    \/ LeavePropertyLoop
    \/ EnterListLoop
    \/ ItemPass
    \/ LeaveListLoop

\* The generated code runs on: a step that can be taken is taken.
SpecLoops == InitLoops /\ [][NextLoops]_vars /\ WF_vars(NextLoops)

\* ---- xmlization: serialize an instance, deserialize what was written

Bytes3 == <<0, 1, 2>>

RECURSIVE Instances(_)
RECURSIVE SlotsUpTo(_, _)

\* The values a property of the type can hold in an instance.  An
\* enumeration value is a literal or, as C# permits, a value of the
\* enumeration type that is none of its literals ("Blue").
ValuesOf(type) ==
    CASE type.t = "bool" -> { BoolV(TRUE), BoolV(FALSE) }
      [] type.t = "int" -> { IntV(0), IntV(7), IntV(0 - 12) }
      [] type.t = "float" ->
            { FloatV(Num(0)), FloatV(Num(15)), FloatV(Num(0 - 20)),
              FloatV(Special("nan")), FloatV(Special("inf")), FloatV(Special("ninf")) }
      [] type.t = "str" -> { StrV(<<>>), StrV(<<"a">>), StrV(<<" ">>) }
      [] type.t = "bytes" ->
            { BytesV(<<>>), BytesV(Bytes3), BytesV(<<255>>), BytesV(<<7, 200>>) }
      [] type.t = "enum" ->
            { EnumV(EnumLiterals(type.of)[k]) : k \in 1..Len(EnumLiterals(type.of)) }
            \cup { EnumV("Blue") }
      [] type.t = "cls" -> Instances(type.of)
      [] type.t = "iface" ->
            UNION { Instances(Implementers(type.of)[k]) :
                        k \in 1..Len(Implementers(type.of)) }
      [] type.t = "list" ->
            { ListV(items) :
                items \in SeqsUpTo(
                    IF HasInterfaceDispatch(type.of)
                    THEN UNION { Instances(Implementers(type.of)[k]) :
                                    k \in 1..Len(Implementers(type.of)) }
                    ELSE Instances(type.of),
                    MaxItems) }

\* The assignments of values to the first k properties of the class.
SlotsUpTo(cls, k) ==
    IF k = 0 THEN { [n \in {} |-> Null] }
    ELSE LET prop == Properties(cls)[k]
         IN  { slots @@ (prop.name :> v) :
                 slots \in SlotsUpTo(cls, k - 1),
                 v \in ValuesOf(prop.type) \cup (IF prop.optional THEN {Null} ELSE {}) }

Instances(cls) == { InstV(cls, slots) : slots \in SlotsUpTo(cls, Len(Properties(cls))) }

Writers ==
    { [prefix |-> "", ns |-> NoNs, short |-> s] : s \in BOOLEAN }
    \cup { [prefix |-> "p", ns |-> NsA, short |-> s] : s \in BOOLEAN }
    \cup { [prefix |-> "", ns |-> NsA, short |-> s] : s \in BOOLEAN }

InitRoundTrip ==
    /\ pc = "start"
    /\ inst \in UNION { Instances(cls) : cls \in ConcreteClasses }
    /\ writer \in Writers
    /\ root \in { [op |-> "element", sym |-> inst.cls, ns |-> writer.ns] }
                \cup { [op |-> "interface", sym |-> i, ns |-> writer.ns] :
                         i \in InterfacesOf(inst.cls) }
    /\ sink = Written(<<>>)
    /\ doc = <<>>
    /\ res = NotCalled
    /\ unread = <<>>
    /\ memoryStream = <<>>
    /\ ReportingIdle
    /\ passes = 0
    /\ GeneratorIdle

Serialize ==
    /\ pc = "start"
    /\ sink' = SerializeTo(inst)
    /\ doc' = Render(sink'.calls, 1, <<>>, writer)
    /\ pc' = "serialized"
    /\ UNCHANGED <<segments, rendered, failure, root, inst, writer, res, unread, memoryStream, passes,
                 symbol_table, spec_impls, generated>>

Deserialize ==
    /\ pc = "serialized"
    /\ sink.thrown = ""
    /\ res' = CallEntry(root, doc)
    /\ pc' = "deserialized"
    /\ UNCHANGED <<segments, rendered, failure, root, inst, writer, sink, doc, unread, memoryStream, passes,
                 symbol_table, spec_impls, generated>>

NextRoundTrip == Serialize \/ Deserialize

SpecRoundTrip == InitRoundTrip /\ [][NextRoundTrip]_vars

\* ---- xmlization: deserialize any document

\* The XML names that occur in the documents of a class or an interface.
RECURSIVE SymbolNames(_)
TypeNames(type) ==
    IF type.t \in {"cls", "iface", "list"} THEN SymbolNames(type.of) ELSE {}

SymbolNames(symbol) ==
    IF HasInterfaceDispatch(symbol)
    THEN UNION { SymbolNames(Implementers(symbol)[k]) : k \in 1..Len(Implementers(symbol)) }
    ELSE {symbol}
         \cup PropertyNames(symbol)
         \cup UNION { TypeNames(Properties(symbol)[k].type) : k \in 1..Len(Properties(symbol)) }

\* The contents of the text nodes: texts that some typed read converts, one
\* of them a number with a leading zero, and a text that only a string read
\* accepts.
DocTexts ==
    { <<"1">>, <<"0", "1">>, <<"x">>, EnumText("color", "Red"), Base64Text(Bytes3) }

\* The forms an element takes: in no namespace, or prefixed in the namespace NsA.
Forms == { [prefix |-> "", ns |-> NoNs], [prefix |-> "p", ns |-> NsA] }

\* The nodes a document for the entry point is made of: elements of the
\* names of its classes and properties and of one name that is none of them.
Alphabet(r) ==
    { Element(f.prefix, n, f.ns, e) :
        f \in Forms, n \in SymbolNames(r.sym) \cup {"bogus"}, e \in BOOLEAN }
    \cup { EndElement(f.prefix, n, f.ns) :
        f \in Forms, n \in SymbolNames(r.sym) \cup {"bogus"} }
    \cup { Text(t) : t \in DocTexts }
    \cup { Whitespace(<<" ">>), Comment, NoneNode }

Insignificant(d) ==
    Cardinality({ k \in 1..Len(d) : d[k].kind \in {"None", "Whitespace", "Comment"} })

DocRoots ==
    { [op |-> "element", sym |-> cls, ns |-> ns] :
        cls \in ConcreteClasses, ns \in {NoNs, NsA} }
    \cup { [op |-> "interface", sym |-> i, ns |-> ns] :
        i \in InterfaceNames, ns \in {NoNs, NsA} }

InitDoc ==
    /\ pc = "deserialized"
    /\ root \in DocRoots
    /\ doc = <<>>
    /\ res = CallEntry(root, <<>>)
    /\ inst = Null
    /\ writer = NoWriter
    /\ sink = Written(<<>>)
    /\ unread = <<>>
    /\ memoryStream = <<>>
    /\ ReportingIdle
    /\ passes = 0
    /\ GeneratorIdle

\* The entry point is called on a document one node longer.  Only a document
\* that the reader was taken to the end of is made longer: the nodes after
\* the one a call stops at play no part in it.
DeserializeLonger ==
    /\ pc = "deserialized"
    /\ res.pos > Len(doc)
    /\ Len(doc) < MaxDocLen
    /\ \E n \in Alphabet(root) :
        /\ n.kind = "None" => doc = <<>>
        /\ Insignificant(Append(doc, n)) <= MaxInsignificant
        /\ doc' = Append(doc, n)
        /\ res' = CallEntry(root, doc')
    /\ UNCHANGED <<pc, segments, rendered, failure, root, inst, writer, sink, unread, memoryStream, passes,
                 symbol_table, spec_impls, generated>>

\* The instance that the entry point returned is handed to Serialize.To
\* with a writer of the namespace of the call.
SerializeAgain ==
    /\ pc = "deserialized"
    /\ res.status = "ok"
    /\ writer' \in { w \in Writers : w.ns = root.ns }
    /\ sink' = SerializeTo(res.value)
    /\ pc' = "serialized again"
    /\ UNCHANGED <<segments, rendered, failure, root, inst, doc, res, unread, memoryStream, passes,
                 symbol_table, spec_impls, generated>>

NextDoc == DeserializeLonger \/ SerializeAgain

SpecDoc == InitDoc /\ [][NextDoc]_vars

\* ------------------------------------------------ properties: reporting

\* The identifier syntax [A-Za-z_][A-Za-z0-9_]*
IdentifierSyntax(name) ==
    /\ name # <<>>
    /\ Head(name) \notin Digits
    /\ \A k \in 1..Len(name) : name[k] \in Letters \cup Digits \cup {"_"}

\* What the dotted-bracket form prescribes for the k-th segment (from 1) of a
\* list of identifier names and indices.
DottedPart(segs, k) ==
    IF IsNameSegment(segs[k])
    THEN (IF k = 1 THEN segs[k].name ELSE <<".">> \o segs[k].name)
    ELSE <<"[">> \o IntText(segs[k].index) \o <<"]">>

RECURSIVE DottedFrom(_, _)
DottedFrom(segs, k) ==
    IF k > Len(segs) THEN <<>> ELSE DottedPart(segs, k) \o DottedFrom(segs, k + 1)

ItemsTwoValue ==
    <<"i", "t", "e", "m", "s", "[", "2", "]", ".", "v", "a", "l", "u", "e">>

\* C9: the dotted-bracket rendering of a segment list whose names are all
\* identifiers is the concatenation, in order, of the name itself for a name
\* at position 0, a dot and the name for a name at a later position, and the
\* bracketed decimal index for an index at any position; the list
\* [Name(items), Index(2), Name(value)] renders as items[2].value.
DottedBracketRendering ==
    pc = "json" =>
        /\ (\A k \in 1..Len(segments) :
                IsNameSegment(segments[k]) => IdentifierSyntax(segments[k].name))
            => rendered = DottedFrom(segments, 1)
        /\ segments = ExampleSegments => rendered = ItemsTwoValue

\* C9, its case: the example list has been rendered.
ExampleRendered ==
    /\ pc = "json"
    /\ segments = ExampleSegments
    /\ rendered = ItemsTwoValue

\* The two-character escape of a character that has one, else the character.
EscapeOf(c) ==
    CASE c = "TAB" -> <<"BACKSLASH", "t">>
      [] c = "BS" -> <<"BACKSLASH", "b">>
      [] c = "LF" -> <<"BACKSLASH", "n">>
      [] c = "CR" -> <<"BACKSLASH", "r">>
      [] c = "FF" -> <<"BACKSLASH", "f">>
      [] c = "QUOTE" -> <<"BACKSLASH", "QUOTE">>
      [] c = "BACKSLASH" -> <<"BACKSLASH", "BACKSLASH">>
      [] OTHER -> <<c>>

RECURSIVE EscapedOnce(_)
EscapedOnce(name) ==
    IF name = <<>> THEN <<>> ELSE EscapeOf(Head(name)) \o EscapedOnce(Tail(name))

\* C10: a name that is not an identifier, rendered alone in dotted-bracket
\* form, gives [" and "] around the name in which each tab, backspace, newline,
\* carriage return, form feed, double quote and backslash is replaced by its
\* two-character escape and every other character is unchanged; no escape is
\* escaped again.
NameEscapedOnce ==
    (/\ pc = "json"
     /\ Len(segments) = 1
     /\ IsNameSegment(segments[1])
     /\ ~IdentifierSyntax(segments[1].name))
    => rendered = <<"[", "QUOTE">> \o EscapedOnce(segments[1].name) \o <<"QUOTE", "]">>

\* ----------------------------------------------- properties: round trip

\* C1: for every valid instance, decoding the document that Serialize.To
\* wrote of it succeeds and gives an instance equal to it.
RoundTrip ==
    pc = "deserialized" => res.status = "ok" /\ res.value = inst

\* ------------------------------------------ properties: deserialization

\* The node is an element that the namespace argument resolves to the name.
IsElementNamed(node, ns, name) ==
    /\ node.kind = "Element"
    /\ TryElementName(node, ns).error = NoError
    /\ TryElementName(node, ns).name = Unprefixed(name)

IsEndElementNamed(node, ns, name) ==
    /\ node.kind = "EndElement"
    /\ TryElementName(node, ns).error = NoError
    /\ TryElementName(node, ns).name = Unprefixed(name)

\* The entry point of a class was called on a document that opens the
\* element of the class and then an element.
OpensRootAndChild ==
    /\ root.op = "element"
    /\ Len(doc) >= 2
    /\ IsElementNamed(doc[1], root.ns, root.sym)
    /\ ~doc[1].empty
    /\ doc[2].kind = "Element"
    /\ TryElementName(doc[2], root.ns).error = NoError

\* The resolved name of that element.
ChildName == TryElementName(doc[2], root.ns).name

\* That element is the element of a property of the class.
OpensRootAndProperty ==
    /\ OpensRootAndChild
    /\ ChildName \in { Unprefixed(n) : n \in PropertyNames(root.sym) }

ChildProperty == PropertyByName(root.sym, ChildName[2])

\* What the case body of that property leaves.
ChildValue ==
    DeserializeProperty(ChildProperty, root.sym, doc, 3, doc[2].empty, root.ns, ChildName)

\* C2: a self-closing element of a property of type bytes decodes to the
\* empty byte sequence, and the call does not fail for the empty content.
SelfClosingBytesDecodes ==
    (/\ OpensRootAndProperty
     /\ doc[2].empty
     /\ ChildProperty.type.t = "bytes")
    => /\ ChildValue.status = "ok"
       /\ ChildValue.value = BytesV(<<>>)
       /\ ~(res.status = "error" /\ res.error.kind = "EmptyScalarContent")

\* C3: for every class, one without properties included, a child element
\* whose resolved name is not the name of a property of the class makes the
\* call fail with UnknownProperty of that name, and the path of the error is
\* exactly the name segment of that name.
UnknownPropertyReported ==
    (/\ OpensRootAndChild
     /\ ~OpensRootAndProperty)
    => /\ res.status = "error"
       /\ res.error.kind = "UnknownProperty"
       /\ res.error.name = ChildName
       /\ res.error.segments =
            <<NameSegment(IF ChildName[1] = "" THEN ChildName[2] ELSE ChildName)>>

\* The document is the element of the class of the entry point holding
\* one self-closing element, that of the property.
HoldsOnlySelfClosing(name) ==
    /\ root.op = "element"
    /\ Len(doc) = 3
    /\ IsElementNamed(doc[1], root.ns, root.sym)
    /\ ~doc[1].empty
    /\ IsElementNamed(doc[2], root.ns, name)
    /\ doc[2].empty
    /\ IsEndElementNamed(doc[3], root.ns, root.sym)

\* C4: a self-closing element of a string property decodes to the empty
\* string, which satisfies the property when it is required, while a
\* self-closing element of a bool, int or float property makes the call fail
\* with EmptyScalarContent whose path is exactly the name segment of the
\* property.
SelfClosingScalar ==
    (OpensRootAndProperty /\ doc[2].empty) =>
        /\ ChildProperty.type.t \in {"bool", "int", "float"} =>
            /\ res.status = "error"
            /\ res.error.kind = "EmptyScalarContent"
            /\ res.error.cls = root.sym
            /\ res.error.name = ChildName
            /\ res.error.segments = <<NameSegment(ChildProperty.name)>>
        /\ ChildProperty.type.t = "str" =>
            /\ ChildValue.status = "ok"
            /\ ChildValue.value = StrV(<<>>)
            /\ ~(/\ res.status = "error"
                 /\ res.error.cls = root.sym
                 /\ res.error.kind \in {"EmptyScalarContent", "MissingRequiredProperty"}
                 /\ res.error.name = ChildName)
            /\ (/\ HoldsOnlySelfClosing(ChildProperty.name)
                /\ \A k \in 1..Len(Properties(root.sym)) :
                        \/ Properties(root.sym)[k].optional
                        \/ Properties(root.sym)[k] = ChildProperty)
               => /\ res.status = "ok"
                  /\ res.value.cls = root.sym
                  /\ res.value.slots[ChildProperty.name] = StrV(<<>>)

\* C4, its case: a required string property was decoded from its
\* self-closing element, alone in the element of its class.
SelfClosingStringDecoded ==
    /\ HoldsOnlySelfClosing("text")
    /\ root.sym = "leaf"
    /\ res.status = "ok"
    /\ res.value.slots["text"] = StrV(<<>>)

\* The error is the one of a required property that was left unset.
MissingRequired == res.status = "error" /\ res.error.kind = "MissingRequiredProperty"

\* The required properties of the class, in declaration order.
Required(cls) == SelectSeq(Properties(cls), LAMBDA prop : ~prop.optional)

\* The document is the element of the class of the entry point with no
\* child: an empty pair of tags, or self-closing.
HoldsNothing ==
    /\ root.op = "element"
    /\ \/ /\ Len(doc) = 2
          /\ IsElementNamed(doc[1], root.ns, root.sym)
          /\ ~doc[1].empty
          /\ IsEndElementNamed(doc[2], root.ns, root.sym)
       \/ /\ Len(doc) = 1
          /\ IsElementNamed(doc[1], root.ns, root.sym)
          /\ doc[1].empty

\* C5: a document for a class in which the element of a required property
\* of the class never occurs does not decode; when the properties of the
\* class were read to their end the call fails with MissingRequiredProperty
\* of a required property whose element did not occur among the nodes read,
\* and the path of that error has no segment of the class itself, only the
\* segments of the enclosing properties and items (none for the class of the
\* entry point).
MissingRequiredReported ==
    /\ (res.status = "ok" /\ root.op # "none") =>
            \A k \in 1..Len(Properties(res.value.cls)) :
                \/ Properties(res.value.cls)[k].optional
                \/ res.value.slots[Properties(res.value.cls)[k].name] # Null
    /\ (HoldsNothing /\ Required(root.sym) # <<>>) =>
            /\ MissingRequired
            /\ res.error.cls = root.sym
            /\ res.error.name = Unprefixed(Required(root.sym)[1].name)
            /\ res.error.segments = <<>>
    /\ MissingRequired =>
            /\ \E k \in 1..Len(Required(res.error.cls)) :
                    res.error.name = Unprefixed(Required(res.error.cls)[k].name)
            /\ \A k \in 1..Len(res.error.segments) :
                    IsNameSegment(res.error.segments[k])
                    => res.error.segments[k].name \notin PropertyNames(res.error.cls)
            /\ (root.op = "element" /\ res.error.cls = root.sym) =>
                    /\ res.error.segments = <<>>
                    /\ \A k \in 1..Len(doc) :
                            k < res.pos
                            => ~IsElementNamed(doc[k], root.ns, res.error.name[2])

\* C5, its case: the required property of a class decoded as the value of a
\* property was left unset, and the path is the segment of that property.
NestedRequiredMissing ==
    /\ MissingRequired
    /\ root.op = "element"
    /\ root.sym = "holder"
    /\ res.error.cls = "leaf"
    /\ res.error.name = Unprefixed("text")
    /\ res.error.segments = <<NameSegment("rec")>>

\* The name is the XML name of an implementer of the interface.
IsImplementer(interface, name) ==
    \E k \in 1..Len(Implementers(interface)) : name = Unprefixed(Implementers(interface)[k])

\* C6: where an instance of an interface is decoded, as the document of the
\* entry point of the interface or as the value of a property, an element
\* named as an implementer C gives what the decoder of the class C gives,
\* an instance of C when it succeeds, and an element named as no implementer
\* gives the error UnknownPolymorphicVariant of the name and no instance.
PolymorphicDispatch ==
    /\ (/\ root.op = "interface"
        /\ Len(doc) >= 1
        /\ doc[1].kind = "Element"
        /\ TryElementName(doc[1], root.ns).error = NoError) =>
            LET name == TryElementName(doc[1], root.ns).name
            IN  IF IsImplementer(root.sym, name)
                THEN /\ res = ClsFromElement(name[2], doc, 1, root.ns)
                     /\ res.status = "ok" => res.value.cls = name[2]
                ELSE /\ res.status = "error"
                     /\ res.value = Null
                     /\ res.error.kind = "UnknownPolymorphicVariant"
                     /\ res.error.name = name
    /\ (/\ OpensRootAndProperty
        /\ ChildProperty.type.t = "iface"
        /\ ~doc[2].empty
        /\ Len(doc) >= 3
        /\ doc[3].kind = "Element"
        /\ TryElementName(doc[3], root.ns).error = NoError) =>
            LET name == TryElementName(doc[3], root.ns).name
            IN  IF IsImplementer(ChildProperty.type.of, name)
                THEN /\ ChildValue.status = "ok" =>
                            /\ ChildValue.value.cls = name[2]
                            /\ ChildValue.value =
                                ClsFromElement(name[2], doc, 3, root.ns).value
                     /\ ChildValue.status # "ok" =>
                            ClsFromElement(name[2], doc, 3, root.ns).status # "ok"
                ELSE /\ ChildValue.status = "error"
                     /\ ChildValue.value = Null
                     /\ ChildValue.error.kind = "UnknownPolymorphicVariant"
                     /\ ChildValue.error.name = name
                     /\ res.status = "error"
                     /\ res.error = ChildValue.error

\* C6, its case: the entry point of the interface decoded a circle of
\* radius 1 from the element of the circle.
CircleDecoded ==
    /\ root.op = "interface"
    /\ Len(doc) = 5
    /\ IsElementNamed(doc[1], root.ns, "circle")
    /\ IsElementNamed(doc[2], root.ns, "radius")
    /\ doc[3] = Text(<<"1">>)
    /\ res.status = "ok"
    /\ res.value = InstV("circle", [n \in {"radius"} |-> IntV(1)])

\* The properties of type list of all classes.
ListPropertyNames ==
    UNION { { Properties(cls)[k].name :
                k \in { j \in 1..Len(Properties(cls)) : Properties(cls)[j].type.t = "list" } } :
            cls \in ConcreteClasses }

\* C7: in the path of an error every index segment, the one of the item of
\* a list property that failed to decode, directly follows the name segment
\* of that list property.
ItemIndexFollowsName ==
    res.status = "error" =>
        \A k \in 1..Len(res.error.segments) :
            ~IsNameSegment(res.error.segments[k]) =>
                /\ k > 1
                /\ IsNameSegment(res.error.segments[k - 1])
                /\ res.error.segments[k - 1].name \in ListPropertyNames

\* C8: whenever the value of a known property fails to decode, the error
\* that leaves the decoding of the properties of the class is that failure
\* and has the name segment of the property as its first segment.
PropertyFailureNamed ==
    (OpensRootAndProperty /\ ChildValue.status = "error") =>
        /\ res.status = "error"
        /\ res.error = ChildValue.error
        /\ res.error.segments # <<>>
        /\ res.error.segments[1] = NameSegment(ChildProperty.name)

\* The XML entity of a character that the slash form replaces.
XmlEntity(c) ==
    CASE c = "&" -> <<"&", "a", "m", "p", ";">>
      [] c = "/" -> <<"&", "#", "4", "7", ";">>
      [] c = "<" -> <<"&", "l", "t", ";">>
      [] c = ">" -> <<"&", "g", "t", ";">>
      [] c = "QUOTE" -> <<"&", "q", "u", "o", "t", ";">>
      [] c = "'" -> <<"&", "a", "p", "o", "s", ";">>
      [] OTHER -> <<c>>

\* The name with each character replaced once: no character of an entity
\* is replaced again.
RECURSIVE EntitiesOnce(_)
EntitiesOnce(name) ==
    IF name = <<>> THEN <<>> ELSE XmlEntity(Head(name)) \o EntitiesOnce(Tail(name))

SlashPart(seg) ==
    IF IsNameSegment(seg) THEN EntitiesOnce(seg.name)
    ELSE <<"*", "[">> \o NatText(seg.index) \o <<"]">>

\* The parts of the segments from the k-th on, a slash between two parts.
RECURSIVE SlashFrom(_, _)
SlashFrom(segs, k) ==
    IF k > Len(segs) THEN <<>>
    ELSE SlashPart(segs[k])
         \o (IF k < Len(segs) THEN <<"/">> ELSE <<>>)
         \o SlashFrom(segs, k + 1)

\* items/*[2]/value
ItemsSlashTwoSlashValue ==
    <<"i", "t", "e", "m", "s", "/", "*", "[", "2", "]", "/", "v", "a", "l", "u", "e">>

\* C11: the slash form of any segment list is the parts of the segments
\* joined with "/": a name with each of & / < > " ' replaced once by its
\* entity, an index i as *[i]; no slash is put in front of the first part;
\* [Name(items), Index(2), Name(value)] renders as items/*[2]/value.
SlashRendering ==
    pc = "xpath" =>
        /\ rendered = SlashFrom(failure.segments, 1)
        /\ (failure.segments # <<>> /\ SlashPart(failure.segments[1]) # <<>>)
              => Head(rendered) # "/"
        /\ failure.segments = ExampleSegments => rendered = ItemsSlashTwoSlashValue

\* The segments [Name(items), Index(2), Name(value)] were rendered in the
\* slash form.
ExampleSlashRendered ==
    /\ pc = "xpath"
    /\ failure.segments = ExampleSegments
    /\ rendered = ItemsSlashTwoSlashValue

\* ---------------------------------------- properties: Reporting.Error

RECURSIVE Reversed(_)
Reversed(s) == IF s = <<>> THEN <<>> ELSE Append(Reversed(Tail(s)), Head(s))

\* The cause of an error: everything but its segments.
Cause(e) == [kind |-> e.kind, expected |-> e.expected, cls |-> e.cls,
             name |-> e.name, text |-> e.text]

\* C12: an Error starts with no segments and changes only by prepending:
\* after prepend(s1), ..., prepend(sk) its segments read [sk, ..., s1], the
\* segment of the outermost frame first; its cause never changes.
PrependedOutermostFirst ==
    /\ [](failure.segments = Reversed(segments))
    /\ [][Cause(failure') = Cause(failure)]_vars

\* Three frames have prepended three different segments.
ThreeFramesUnwound ==
    /\ Len(segments) = 3
    /\ segments[1] # segments[2]
    /\ segments[2] # segments[3]
    /\ segments[1] # segments[3]
    /\ failure.segments = <<segments[3], segments[2], segments[1]>>

\* ------------------------------------ properties: reading byte content

\* The whole decoded content of the element the reader stands in.
DecodedContent == ParseBase64(ContentText(doc, 2)).value

\* C13: the bytes the reader hands over are accumulated in order, whatever
\* the sizes (of at least 1) of the chunks it hands over, and the sequence
\* returned at the first read of no byte is the whole decoded content of
\* the element, for a content of no byte, of fewer bytes than a chunk, of
\* as many and of a multiple.
WholeContentRead ==
    /\ memoryStream \o unread = DecodedContent
    /\ pc = "read" =>
        /\ unread = <<>>
        /\ res.thrown = ""
        /\ res.value = BytesV(DecodedContent)
        /\ res = ReadWholeContentAsBase64(doc, 2)

\* A content of four bytes was read to its end and returned; the paths to
\* the state read it in chunks of one to four bytes.
FourBytesRead ==
    /\ pc = "read"
    /\ Len(DecodedContent) = 4
    /\ DecodedContent[1] # DecodedContent[3]
    /\ res.value = BytesV(DecodedContent)

\* --------------------------- properties: a document decoded and encoded

\* The document is well-formed: one root element, every start tag closed by
\* the end tag of its name, text only inside an element.
RECURSIVE WellNested(_, _, _, _)
WellNested(d, k, open, roots) ==
    IF k > Len(d) THEN open = <<>> /\ roots = 1
    ELSE IF d[k].kind = "Element" THEN
        /\ open = <<>> => roots = 0
        /\ WellNested(d, k + 1,
                      IF d[k].empty THEN open ELSE <<d[k]>> \o open,
                      IF open = <<>> THEN roots + 1 ELSE roots)
    ELSE IF d[k].kind = "EndElement" THEN
        /\ open # <<>>
        /\ Head(open).prefix = d[k].prefix
        /\ Head(open).local = d[k].local
        /\ Head(open).ns = d[k].ns
        /\ WellNested(d, k + 1, Tail(open), roots)
    ELSE IF d[k].kind = "Text" THEN
        open # <<>> /\ WellNested(d, k + 1, open, roots)
    ELSE WellNested(d, k + 1, open, roots)

\* The elements of a document and their content, in order: the start and
\* the end of every element by name and namespace (a self-closing element
\* as a start and an end), and the texts; white space, comments and the
\* prefixes are left out.
RECURSIVE ElementsAndContent(_)
ElementsAndContent(d) ==
    IF d = <<>> THEN <<>>
    ELSE (CASE Head(d).kind = "Element" ->
                 <<[tag |-> "start", local |-> Head(d).local, ns |-> Head(d).ns]>>
                 \o (IF Head(d).empty
                     THEN <<[tag |-> "end", local |-> Head(d).local, ns |-> Head(d).ns]>>
                     ELSE <<>>)
            [] Head(d).kind = "EndElement" ->
                 <<[tag |-> "end", local |-> Head(d).local, ns |-> Head(d).ns]>>
            [] Head(d).kind = "Text" -> <<[tag |-> "text", text |-> Head(d).text]>>
            [] OTHER -> <<>>)
         \o ElementsAndContent(Tail(d))

\* What an XmlReader yields for what Serialize.To wrote.
EncodedAgain == Render(sink.calls, 1, <<>>, writer)

\* C14: a well-formed document that decodes successfully and the encoding
\* of the decoded instance hold the same elements in the same order with
\* the same content, white space, comments and the short and the long form
\* of an element without content left aside.
DecodedThenEncodedIsSame ==
    (pc = "serialized again" /\ WellNested(doc, 1, <<>>, 0))
    => ElementsAndContent(EncodedAgain) = ElementsAndContent(doc)

\* ------------------------------- properties: the reader after a decoding

\* The position after the end tag that closes the element open at depth 1
\* when the node at k is reached at the given depth.
RECURSIVE PastEndTag(_, _, _)
PastEndTag(d, k, depth) ==
    IF k > Len(d) THEN k
    ELSE IF d[k].kind = "Element" /\ ~d[k].empty THEN PastEndTag(d, k + 1, depth + 1)
    ELSE IF d[k].kind = "EndElement"
    THEN (IF depth = 1 THEN k + 1 ELSE PastEndTag(d, k + 1, depth - 1))
    ELSE PastEndTag(d, k + 1, depth)

\* The position exactly past the element that starts at k: after its start
\* tag when it is self-closing, else after its end tag.
ExactlyPast(d, k) == IF d[k].empty THEN k + 1 ELSE PastEndTag(d, k + 1, 1)

\* The first node of the document that is no white space and no comment.
RootElementAt == SkipNoneWhitespaceAndComments(doc, 1)

\* C15: after a successful decoding of a class from an element the reader
\* stands exactly past that element, after its end tag or, for a
\* self-closing element, after its start tag: no node that follows the
\* element was consumed, not even white space or a comment.
ReaderExactlyPastElement ==
    (pc = "deserialized" /\ res.status = "ok")
    => res.pos = ExactlyPast(doc, RootElementAt)

\* -------------------------- properties: what a deserialization returns

\* The exceptions of the "?? throw" of the generated code.
UnexpectedNullFaults ==
    { "InvalidOperationException: Unexpected output null when error is null",
      "InvalidOperationException: Unexpected null, had to be handled before",
      "InvalidOperationException: Unexpected item null when error null" }

\* Every required property of the instance holds a value, and so in the
\* instances that the instance holds.
RECURSIVE FullyConstructed(_)
FullyConstructed(v) ==
    IF "list" \in DOMAIN v
    THEN \A k \in 1..Len(v.list) : FullyConstructed(v.list[k])
    ELSE IF "cls" \in DOMAIN v
    THEN /\ v.cls \in ConcreteClasses
         /\ DOMAIN v.slots = PropertyNames(v.cls)
         /\ \A k \in 1..Len(Properties(v.cls)) :
                LET prop == Properties(v.cls)[k]
                IN  /\ ~prop.optional => v.slots[prop.name] # Null
                    /\ v.slots[prop.name] # Null => FullyConstructed(v.slots[prop.name])
    ELSE v # Null

\* The call returned an instance and no error, or an error and no instance.
ExactlyOneOf(r) ==
    /\ r.status = "error" => (r.value = Null /\ r.error # NoError)
    /\ r.status = "ok" =>
          (r.error = NoError /\ "cls" \in DOMAIN r.value /\ FullyConstructed(r.value))
    /\ r.thrown \notin UnexpectedNullFaults

\* C16: the deserialization of a class from an element and of an interface
\* from an element, and through them that of a class from a sequence of
\* properties, return either an error and no instance or no error and an
\* instance whose required properties all hold a value, down to the
\* instances it holds; no call ends in one of the "unexpected null"
\* exceptions.
InstanceOrError ==
    pc = "deserialized" => ExactlyOneOf(res)

\* A holder was returned whose required property holds a leaf whose
\* required property holds a text.
NestedInstanceReturned ==
    /\ pc = "deserialized"
    /\ res.status = "ok"
    /\ res.value.cls = "holder"
    /\ res.value.slots["rec"].cls = "leaf"
    /\ res.value.slots["rec"].slots["text"] # Null

\* ------------------------------ properties: the first error ends a call

\* s is the end of t.
IsSuffix(s, t) ==
    /\ Len(s) <= Len(t)
    /\ SubSeq(t, Len(t) - Len(s) + 1, Len(t)) = s

\* The property of the element at 2 holds a class, and this is what the
\* deserialization of that class from the sequence inside the element gives.
ChildIsCls == OpensRootAndProperty /\ ChildProperty.type.t = "cls"

ChildSequence == ClsFromSequence(ChildProperty.type.of, doc, 3, doc[2].empty, root.ns)

\* The error was created on a node of the document, not at its end.
ErrorOnNode == res.status = "error" /\ res.pos <= Len(doc)

\* Nodes of four kinds that may follow the node of the error: an element,
\* an end element, a text and a comment, the names in the namespace of the
\* call.
NodesBehind ==
    { n \in Alphabet(root) :
        /\ n.ns \in {root.ns, NoNs}
        /\ \/ n.kind = "Element" /\ n.local = "bogus" /\ n.empty /\ n.ns = root.ns
           \/ n.kind = "EndElement" /\ n.local = root.sym /\ n.ns = root.ns
           \/ n.kind = "Text" /\ n.text = <<"1">>
           \/ n.kind = "Comment" }

\* C17: the first error ends the whole deserialization.  No instance is
\* returned; the reader stays where it stood when the error was created
\* and nothing behind that node is read, so whatever node follows, the call
\* gives the same error (shown for the nodes NodesBehind); and the error that the caller receives is the one
\* created in the innermost call, with the same cause, the segments of the
\* frames put in front of its segments, and the reader where it was.
FirstErrorEndsCall ==
    pc = "deserialized" =>
        /\ res.status = "error" => res.value = Null
        /\ (ErrorOnNode /\ Len(doc) + 1 < MaxDocLen) =>
              \A n \in NodesBehind : CallEntry(root, Append(doc, n)) = res
        /\ (ChildIsCls /\ ChildSequence.status = "error") =>
              /\ res.status = "error"
              /\ Cause(res.error) = Cause(ChildSequence.error)
              /\ IsSuffix(ChildSequence.error.segments, res.error.segments)
              /\ res.pos = ChildSequence.pos

\* An error created two calls deep was returned with the segments of both
\* frames.
NestedErrorReturned ==
    /\ pc = "deserialized"
    /\ ChildIsCls
    /\ ChildSequence.status = "error"
    /\ ChildSequence.error.segments # <<>>
    /\ res.status = "error"
    /\ Len(res.error.segments) = Len(ChildSequence.error.segments) + 1

\* ------------------------------------- properties: what Serialize.To writes

\* Serialize.To ran and returned.
Completed == pc # "start" /\ sink.thrown = ""

\* The number of elements open after the first k calls.
RECURSIVE Depth(_, _)
Depth(calls, k) ==
    IF k = 0 THEN 0
    ELSE Depth(calls, k - 1)
         + (CASE calls[k].op = "start" -> 1
              [] calls[k].op = "end" -> 0 - 1
              [] OTHER -> 0)

\* The names of the elements started directly inside the first element,
\* in the order of the calls, from the k-th call on.
RECURSIVE ElementsInside(_, _)
ElementsInside(calls, k) ==
    IF k > Len(calls) THEN <<>>
    ELSE (IF calls[k].op = "start" /\ Depth(calls, k - 1) = 1
          THEN <<calls[k].name>> ELSE <<>>)
         \o ElementsInside(calls, k + 1)

\* The names of the properties of the instance that are set, in the order
\* of their declaration.
SetProperties(that) ==
    LET set == SelectSeq(Properties(that.cls), LAMBDA prop : that.slots[prop.name] # Null)
    IN  [k \in 1..Len(set) |-> set[k].name]

\* C18: Serialize.To starts the element of the class, then writes, for the
\* properties in declaration order, nothing for an optional property that
\* is not set and one element for every other property, then ends the
\* element of the class: the elements inside the element of the class are
\* those of the set properties in declaration order.
DeclarationOrder ==
    Completed =>
        /\ Len(sink.calls) >= 2
        /\ sink.calls[1] = WriteStartElement(inst.cls)
        /\ sink.calls[Len(sink.calls)] = WriteEndElement
        /\ \A k \in 1..(Len(sink.calls) - 1) : Depth(sink.calls, k) >= 1
        /\ ElementsInside(sink.calls, 1) = SetProperties(inst)

\* An instance with an optional property unset between set ones was written.
UnsetPropertySkipped ==
    /\ Completed
    /\ inst.cls = "scalars"
    /\ inst.slots["ratio"] = Null
    /\ inst.slots["kind"] # Null
    /\ ElementsInside(sink.calls, 1) = <<"num", "data", "kind">>

\* The names of the elements of the properties that hold a scalar, an
\* enumeration literal or bytes.
ValueProperties ==
    UNION { { Properties(cls)[k].name :
                k \in { j \in 1..Len(Properties(cls)) :
                          Properties(cls)[j].type.t
                              \in {"bool", "int", "float", "str", "bytes", "enum"} } } :
            cls \in ConcreteClasses }

\* C19: in an encoding that completes the calls on the writer are properly
\* nested: after no call have more elements been ended than started, a
\* value or bytes are written only right after the start of the element of
\* a property, inside the element of a class, and at the return as many
\* elements have been ended as started.
ProperlyNested ==
    Completed =>
        /\ \A k \in 1..Len(sink.calls) :
            /\ Depth(sink.calls, k) >= 0
            /\ sink.calls[k].op = "value" =>
                /\ k > 1
                /\ sink.calls[k - 1].op = "start"
                /\ sink.calls[k - 1].name \in ValueProperties
                /\ Depth(sink.calls, k) >= 2
        /\ Depth(sink.calls, Len(sink.calls)) = 0

\* A holder of a list of two items was written: elements four deep.
TwoItemsWritten ==
    /\ Completed
    /\ inst.cls = "holder"
    /\ inst.slots["items"] # Null
    /\ Len(inst.slots["items"].list) = 2
    /\ \E k \in 1..Len(sink.calls) : Depth(sink.calls, k) = 4

\* The instance, or an instance that it holds, holds a value of an
\* enumeration that is none of its literals.
RECURSIVE HoldsUnmappedLiteral(_)
HoldsUnmappedLiteral(v) ==
    IF "list" \in DOMAIN v
    THEN \E k \in 1..Len(v.list) : HoldsUnmappedLiteral(v.list[k])
    ELSE IF "cls" \in DOMAIN v
    THEN \E k \in 1..Len(Properties(v.cls)) :
            LET prop == Properties(v.cls)[k]
                value == v.slots[prop.name]
            IN  /\ value # Null
                /\ IF prop.type.t = "enum"
                   THEN \A j \in 1..Len(EnumLiterals(prop.type.of)) :
                            EnumLiterals(prop.type.of)[j] # value.enum
                   ELSE HoldsUnmappedLiteral(value)
    ELSE FALSE

\* C20: Serialize.To fails only for an instance that holds, in a property
\* of an enumeration type, a value with no text registered for it, and then
\* with the ArgumentException of that property; for every instance whose
\* enumeration values are all literals it completes.
FailsOnlyOnUnmappedLiteral ==
    pc # "start" =>
        /\ sink.thrown # "" <=> HoldsUnmappedLiteral(inst)
        /\ sink.thrown \in {"", "ArgumentException"}

\* Serialize.To threw for an instance whose enumeration value is no literal.
UnmappedLiteralThrown ==
    /\ pc = "serialized"
    /\ HoldsUnmappedLiteral(inst)
    /\ sink.thrown = "ArgumentException"

\* ------------------------------------------- properties: the namespace

IsTag(node) == node.kind \in {"Element", "EndElement"}

\* The document with the prefix of every tag replaced.
Reprefixed(d, prefix) ==
    [k \in 1..Len(d) |-> IF IsTag(d[k]) THEN [d[k] EXCEPT !.prefix = prefix] ELSE d[k]]

\* The document with every tag moved to the other namespace.
Renamespaced(d) ==
    [k \in 1..Len(d) |->
        IF IsTag(d[k]) THEN [d[k] EXCEPT !.ns = IF @ = NoNs THEN NsA ELSE NoNs]
        ELSE d[k]]

\* The errors of the comparisons of the name of the node the reader stands on.
NameComparisons ==
    {"UnexpectedElementName", "MismatchedEndElement", "UnknownPolymorphicVariant"}

\* C21: in a call with a namespace every tag that a successful decoding
\* read is in exactly that namespace, NamespaceMismatch is the error of a
\* tag in another namespace, a name is compared only after the namespace
\* was found right, and the names are compared without their prefix: a
\* tag under another prefix gets the same name, and a document that was
\* decoded gives the same instance under another prefix.  In a call
\* without a namespace no error is NamespaceMismatch, the names are compared
\* with their prefix, and neither the name of a tag nor the instance
\* decoded depends on the namespaces of the tags.
NamespaceRule ==
    pc = "deserialized" =>
        IF root.ns # NoNs
        THEN /\ res.status = "ok" =>
                    \A k \in 1..Len(doc) :
                        (k < res.pos /\ IsTag(doc[k])) => doc[k].ns = root.ns
             /\ (res.status = "error" /\ res.error.kind = "NamespaceMismatch") =>
                    /\ res.pos <= Len(doc)
                    /\ IsTag(doc[res.pos])
                    /\ doc[res.pos].ns # root.ns
             /\ (res.status = "error" /\ res.error.kind \in NameComparisons) =>
                    /\ doc[res.pos].ns = root.ns
                    /\ res.error.name[1] = ""
             /\ (res.status = "error" /\ res.error.kind = "UnknownProperty") =>
                    /\ doc[res.pos - 1].ns = root.ns
                    /\ res.error.name[1] = ""
             /\ \A k \in 1..Len(doc) :
                    IsTag(doc[k]) =>
                        TryElementName(Reprefixed(<<doc[k]>>, "q")[1], root.ns)
                            = TryElementName(doc[k], root.ns)
             /\ res.status = "ok" => CallEntry(root, Reprefixed(doc, "q")) = res
        ELSE /\ ~(res.status = "error" /\ res.error.kind = "NamespaceMismatch")
             /\ res.status = "ok" =>
                    \A k \in 1..Len(doc) :
                        (k < res.pos /\ IsTag(doc[k])) => doc[k].prefix = ""
             /\ \A k \in 1..Len(doc) :
                    IsTag(doc[k]) =>
                        TryElementName(Renamespaced(<<doc[k]>>)[1], root.ns)
                            = TryElementName(doc[k], root.ns)
             /\ res.status = "ok" => CallEntry(root, Renamespaced(doc)) = res

\* In a call with a namespace the end tag of a property in another
\* namespace gave NamespaceMismatch, after prefixed start tags were accepted.
EndTagInOtherNamespace ==
    /\ pc = "deserialized"
    /\ root.ns = NsA
    /\ res.status = "error"
    /\ res.error.kind = "NamespaceMismatch"
    /\ res.pos = 4
    /\ doc[1].prefix = "p"
    /\ doc[4].kind = "EndElement"
    /\ doc[4].local = doc[2].local

\* ------------------------------------ properties: what generate returns

\* text.endswith("\n")
EndsWithNewline(text) == text # <<>> /\ text[Len(text)] = LF

LoopsAsWhole ==
    LET start == SkipNoneWhitespaceAndComments(doc, 1)
    IN  CASE root.op = "skip" -> Ok(Null, start)
          [] root.op = "sequence" ->
                IF EOF(doc, start)
                THEN Failed(Error("UnexpectedEndOfDocument", "property element",
                                  root.sym, NoName), start)
                ELSE PropertyLoop(root.sym, doc, start, root.ns,
                                  [n \in PropertyNames(root.sym) |-> Null])
          [] root.op = "list" ->
                ListLoop(ListProperty(root.sym), doc, start, root.ns, 0, <<>>)

\* C23: the loop that skips white space and comments, the loop over the
\* elements of the properties and the loop over the items each move the
\* reader forward by at least one node in every pass after which they go
\* on, and never back, so that the passes are at most as many as the
\* document has nodes; every run of the loops
\* over a document comes to its end, and leaves what the loops give when
\* computed as a whole.
LoopsTerminate ==
    /\ [][/\ res'.pos >= res.pos
          /\ passes' = passes + 1 /\ pc' # "left" => res'.pos > res.pos]_vars
    /\ [](/\ passes <= Len(doc)
          /\ res.pos <= Len(doc) + 1
          /\ pc # "left" => passes < res.pos)
    /\ [](pc = "left" => res = LoopsAsWhole)
    /\ <>(pc = "left")

\* The loop over the elements of the properties made three passes and was
\* left at the end of the document.
ThreePassesMade ==
    /\ pc = "left"
    /\ root.op = "sequence"
    /\ passes = 3
    /\ res.status = "ok"
    /\ res.pos = Len(doc) + 1

\* ------------------------------- properties: the end of the document

\* The document is the start tag of the class of the call, not
\* self-closing, and after it nothing but white space and comments.
OnlyStartTag ==
    /\ pc = "deserialized"
    /\ root.op = "element"
    /\ Len(doc) >= 1
    /\ doc[1].kind = "Element"
    /\ ~doc[1].empty
    /\ TryElementName(doc[1], root.ns).error = NoError
    /\ TryElementName(doc[1], root.ns).name = Unprefixed(root.sym)
    /\ \A k \in 2..Len(doc) : doc[k].kind \in {"None", "Whitespace", "Comment"}

\* The document is the start tag of the class of the call, one completed
\* element of a property, self-closing or with a text, and then its end,
\* while a required property of another name is declared.
EndsAfterProperty ==
    /\ pc = "deserialized"
    /\ root.op = "element"
    /\ \/ Len(doc) = 2 /\ doc[2].kind = "Element" /\ doc[2].empty
       \/ /\ Len(doc) = 4
          /\ doc[2].kind = "Element" /\ ~doc[2].empty
          /\ doc[3].kind = "Text"
          /\ doc[4].kind = "EndElement"
    /\ doc[1].kind = "Element"
    /\ ~doc[1].empty
    /\ \E k \in 1..Len(Properties(root.sym)) :
        /\ ~Properties(root.sym)[k].optional
        /\ Properties(root.sym)[k].name # doc[2].local

\* C24 (second case): the end of the document after a completed element of
\* a property leaves the loop: with a required property still unset, the
\* document is not reported as ended unexpectedly.
EndAfterPropertyLeavesLoop ==
    EndsAfterProperty =>
        /\ res.status = "error"
        /\ res.error.kind # "UnexpectedEndOfDocument"

\* A document that ends after a completed property gave the error of the
\* required property that is unset.
MissingAfterEndOfDocument ==
    /\ EndsAfterProperty
    /\ res.status = "error"
    /\ res.error.kind = "MissingRequiredProperty"
    /\ res.pos > Len(doc)

\* C24: a document that ends where the first property element of a class
\* with a required property would start is reported as the missing
\* required property, not as the unexpected end of the document.
EndBeforeFirstPropertyLeavesLoop ==
    OnlyStartTag /\ UnsetRequired(root.sym, [n \in PropertyNames(root.sym) |-> Null]) # <<>> =>
        /\ res.status = "error"
        /\ res.error.kind = "MissingRequiredProperty"

\* ------------------------------ properties: the checks of the start tag

\* The error of the call is of the kind, and the reader stands at p.
FailedAt(kind, p) ==
    /\ res.status = "error"
    /\ res.error.kind = kind
    /\ res.error.segments = <<>>
    /\ res.pos = p

\* The name that the reader gives the node under the namespace of the call.
ResolvedName(node, ns) ==
    IF ns = NoNs THEN <<node.prefix, node.local>> ELSE Unprefixed(node.local)

\* What <Cls>FromElement has to give on a start tag that fails its checks
\* at the node at start, in the order of the checks.
StartChecked(start) ==
    IF EOF(doc, start) THEN FailedAt("UnexpectedEndOfDocument", start)
    ELSE IF doc[start].kind # "Element" THEN FailedAt("UnexpectedNodeKind", start)
    ELSE IF root.ns # NoNs /\ doc[start].ns # root.ns
    THEN FailedAt("NamespaceMismatch", start)
    ELSE IF ResolvedName(doc[start], root.ns) # Unprefixed(root.sym)
    THEN FailedAt("UnexpectedElementName", start) /\ res.error.name = ResolvedName(doc[start], root.ns)
    ELSE res.pos > start

\* C25: <Cls>FromElement checks, in this order, the end of the document,
\* the kind of the node, the namespace and the name, and gives the error of
\* the first check that fails; the reader then stands on the first node
\* that is neither white space nor a comment, and on no later one.
StartTagChecksInOrder ==
    root.op = "element" => StartChecked(SkipNoneWhitespaceAndComments(doc, 1))

\* The start tag is in another namespace and has another name than the
\* class: the namespace is reported, after a skipped node.
NamespaceBeforeName ==
    /\ root.op = "element"
    /\ root.ns # NoNs
    /\ Len(doc) = 2
    /\ doc[1].kind \in {"Whitespace", "Comment"}
    /\ doc[2].kind = "Element"
    /\ doc[2].ns # root.ns
    /\ doc[2].local # root.sym
    /\ FailedAt("NamespaceMismatch", 2)

\* -------------------------------- properties: the checks of the end tag

\* The elements that are open after the node at k was read, the innermost
\* first, each with the name of its start tag.
OpenedBy(open, node, ns) ==
    IF node.kind = "Element" /\ ~node.empty THEN <<ResolvedName(node, ns)>> \o open
    ELSE IF node.kind = "EndElement" /\ open # <<>> THEN Tail(open)
    ELSE open

RECURSIVE OpenAfter(_, _, _)
OpenAfter(d, k, ns) ==
    IF k = 0 THEN <<>> ELSE OpenedBy(OpenAfter(d, k - 1, ns), d[k], ns)

\* The end element at k has the name of the start tag of the innermost open
\* element, and the namespace of the call.
EndsInnermost(d, k, ns) ==
    /\ OpenAfter(d, k - 1, ns) # <<>>
    /\ Head(OpenAfter(d, k - 1, ns)) = ResolvedName(d[k], ns)
    /\ ns # NoNs => d[k].ns = ns

\* The error was raised where the end element of the innermost open
\* element is required, and names that element.
EndRequiredHere ==
    /\ OpenAfter(doc, res.pos - 1, root.ns) # <<>>
    /\ res.error.name = Head(OpenAfter(doc, res.pos - 1, root.ns))

\* C26: after the content of an element of a class or of a property that
\* is not self-closing the nodes that are white space or comments are
\* skipped and an end element of the name of the start tag is required: the
\* end of the document and a node of another kind are errors, another name
\* is MismatchedEndElement, and the reader is moved past the end element
\* only when the name is the same; after a self-closing element no end
\* element is required or read.
EndTagChecked ==
    /\ \A k \in 1..(res.pos - 1) :
        doc[k].kind = "EndElement" => EndsInnermost(doc, k, root.ns)
    /\ res.status = "ok" => OpenAfter(doc, res.pos - 1, root.ns) = <<>>
    /\ res.status = "error" /\ res.error.kind = "MismatchedEndElement" =>
        /\ EndRequiredHere
        /\ doc[res.pos].kind = "EndElement"
        /\ root.ns # NoNs => doc[res.pos].ns = root.ns
        /\ ResolvedName(doc[res.pos], root.ns) # res.error.name
    /\ res.status = "error" /\ res.error.kind = "UnexpectedNodeKind"
       /\ res.error.expected = "end element" =>
        /\ EndRequiredHere
        /\ doc[res.pos].kind \notin {"EndElement", "None", "Whitespace", "Comment"}
    /\ res.status = "error" /\ res.error.kind = "UnexpectedEndOfDocument"
       /\ res.error.expected = "end element" =>
        /\ EndRequiredHere
        /\ res.pos = Len(doc) + 1

\* The element of a property is ended by an end element of another name.
PropertyEndMismatched ==
    /\ root.op = "element"
    /\ Len(doc) = 3
    /\ doc[1].kind = "Element" /\ doc[2].kind = "Element" /\ doc[3].kind = "EndElement"
    /\ doc[3].local # doc[2].local
    /\ FailedAt("MismatchedEndElement", 3)
    /\ res.error.name = ResolvedName(doc[2], root.ns)

\* ------------------------------ properties: the required properties

\* An element of the name stands before the reader.  The properties of the
\* class of the call have names that no element under them has.
Occurs(name) ==
    \E k \in 1..(res.pos - 1) : doc[k].kind = "Element" /\ doc[k].local = name

\* The required properties of the class of the call of which no element
\* stands before the reader, in declaration order.
NotGiven ==
    SelectSeq(Properties(root.sym), LAMBDA prop : ~prop.optional /\ ~Occurs(prop.name))

\* C27: the error of the required properties left unset by the property
\* loop is one error, that of the first of them in declaration order,
\* whatever the order of the elements in the document; an optional
\* property left unset is no error and is null in the instance.
FirstUnsetRequiredReported ==
    root.op = "element" =>
        /\ res.status = "error" /\ res.error.kind = "MissingRequiredProperty"
           /\ res.error.segments = <<>> =>
                /\ res.error.cls = root.sym
                /\ NotGiven # <<>>
                /\ res.error.name = Unprefixed(NotGiven[1].name)
        /\ res.status = "ok" =>
                /\ NotGiven = <<>>
                /\ \A k \in 1..Len(Properties(root.sym)) :
                    ~Occurs(Properties(root.sym)[k].name) =>
                        /\ Properties(root.sym)[k].optional
                        /\ res.value.slots[Properties(root.sym)[k].name] = Null

\* Of two required properties left unset the first declared is reported.
FirstOfTwoUnsetReported ==
    /\ root.op = "element"
    /\ Len(NotGiven) = 2
    /\ FailedAt("MissingRequiredProperty", res.pos)
    /\ res.error.name = Unprefixed(NotGiven[1].name)

\* The second declared of two required properties is given, and the first
\* is reported.
EarlierDeclaredReported ==
    /\ root.op = "element"
    /\ root.sym = "scalars"
    /\ Occurs("data")
    /\ FailedAt("MissingRequiredProperty", res.pos)
    /\ res.error.name = Unprefixed("num")

\* ------------------------------ properties: the faults of the reader

\* The property whose element follows the start tag of the class.
FirstProperty == PropertyByName(root.sym, doc[2].local)

\* The first node of the content of the first property on which the reader
\* fails, no node but content before it; 0 when there is none.
FirstFault ==
    IF \E k \in 3..Len(doc) :
            /\ doc[k].kind = "Text" /\ doc[k].local \in Faults
            /\ \A j \in 3..(k - 1) : doc[j].kind \in ContentKinds
    THEN CHOOSE k \in 3..Len(doc) :
            /\ doc[k].kind = "Text" /\ doc[k].local \in Faults
            /\ \A j \in 3..(k - 1) : doc[j].kind \in ContentKinds /\ doc[j].local \notin Faults
    ELSE 0

\* The call gave the error of the kind for the first property, with the
\* name of the property as the only segment.
FailedForProperty(kind) ==
    /\ res.status = "error"
    /\ res.error.kind = kind
    /\ res.error.cls = root.sym
    /\ res.error.segments = <<NameSegment(FirstProperty.name)>>

\* C28: while the content of a property of a primitive type is read, a
\* FormatException and an XmlException of the reader, the one of a text
\* that does not convert among them, become the error ValueFormatError
\* that carries the exception and has the name of the property as its
\* path; every other exception of the reader leaves the decoder as it is.
ScalarFaultsCaught ==
    /\ pc = "deserialized"
    /\ ~doc[2].empty
    /\ FirstProperty.type.t \in {"bool", "int", "float", "str", "bytes"}
    => /\ FirstFault # 0 /\ doc[FirstFault].local \in {"FormatException", "XmlException"} =>
            /\ FailedForProperty("ValueFormatError")
            /\ res.error.text = <<doc[FirstFault].local>>
       /\ FirstFault # 0 /\ doc[FirstFault].local \notin {"FormatException", "XmlException"} =>
            /\ res.status = "thrown"
            /\ res.thrown = doc[FirstFault].local
       /\ Len(doc) >= 3 /\ doc[3].kind = "Element" =>
            /\ res.status = "thrown"
            /\ res.thrown = "InvalidOperationException"
       /\ res.status = "error" /\ res.error.kind = "ValueFormatError" =>
            /\ FailedForProperty("ValueFormatError")
            /\ res.error.text \in {<<"FormatException">>, <<"XmlException">>}
       /\ FirstFault = 0 /\ FirstProperty.type.t = "int"
          /\ Len(doc) >= 3 /\ doc[3] = Text(<<"x">>) /\ (Len(doc) >= 4 => doc[4].kind = "EndElement") =>
            /\ FailedForProperty("ValueFormatError")
            /\ res.error.text = <<"XmlException">>

\* The reader failed with a FormatException after a text of the content of
\* a property of a primitive type, and the error was returned.
FormatFaultCaught ==
    /\ pc = "deserialized"
    /\ FirstProperty.type.t \in {"bool", "int", "float", "str", "bytes"}
    /\ FirstFault = 4
    /\ doc[4].local = "FormatException"
    /\ FailedForProperty("ValueFormatError")

\* The reader failed with an exception of the stream, which left the decoder.
OtherFaultThrown ==
    /\ pc = "deserialized"
    /\ FirstProperty.type.t \in {"bool", "int", "float", "str", "bytes"}
    /\ FirstFault # 0
    /\ res.status = "thrown"
    /\ res.thrown = "IOException"

\* ---------------------------------- properties: enumeration properties

\* The text nodes of the content of the first property are all read, and
\* the content ends at an end element or with the document.
ContentRead ==
    /\ FirstFault = 0
    /\ \A k \in 3..Len(doc) : doc[k].kind \in ContentKinds \cup {"EndElement"}

\* C29 (without the faults of the reader): a self-closing element of an
\* enumeration property is the error EmptyEnumContent; a content that is
\* the text of no literal is the error UnknownEnumLiteral with that text,
\* and the text of a literal gives that literal; the errors have the name
\* of the property as their path.
EnumerationLookedUp ==
    /\ pc = "deserialized"
    /\ FirstProperty.type.t = "enum"
    => /\ doc[2].empty => FailedForProperty("EmptyEnumContent")
       /\ ~doc[2].empty /\ Len(doc) >= 3 /\ ContentRead =>
            IF EnumFromString(FirstProperty.type.of, ContentText(doc, 3)) = Null
            THEN /\ FailedForProperty("UnknownEnumLiteral")
                 /\ res.error.text = ContentText(doc, 3)
            ELSE ~(res.status = "error" /\ res.error.segments # <<>>)
       /\ FirstFault # 0 /\ doc[FirstFault].local = "FormatException" =>
            /\ FailedForProperty("ValueFormatError")
            /\ res.error.text = <<"FormatException">>

\* The content of an enumeration property is the text of no literal.
UnknownLiteralReported ==
    /\ pc = "deserialized"
    /\ FirstProperty.type.t = "enum"
    /\ ContentRead
    /\ Len(doc) = 5
    /\ doc[3] = Text(<<"x">>)
    /\ FailedForProperty("UnknownEnumLiteral")
    /\ res.error.text = <<"x">>

\* C29: while the content of an enumeration property is read, a
\* FormatException and an XmlException of the reader both become the error
\* ValueFormatError with the name of the property as its path, as they do
\* for a string property.
EnumerationFaultsCaught ==
    /\ pc = "deserialized"
    /\ FirstProperty.type.t = "enum"
    /\ FirstFault # 0
    /\ doc[FirstFault].local \in {"FormatException", "XmlException"}
    => FailedForProperty("ValueFormatError")

\* ------------------------------ properties: a class as a property

\* The document starts with the start tag of holder and the element of its
\* property rec, whose type is the class leaf.
RecGiven ==
    /\ root.op = "element"
    /\ root.sym = "holder"
    /\ Len(doc) >= 2
    /\ \A k \in 1..2 :
        /\ doc[k].kind = "Element"
        /\ TryElementName(doc[k], root.ns).error = NoError
    /\ ~doc[1].empty
    /\ ResolvedName(doc[1], root.ns) = Unprefixed("holder")
    /\ ResolvedName(doc[2], root.ns) = Unprefixed("rec")

\* C30: the value of a property whose type is a class is written and read
\* as the elements of the properties of that class directly in the element
\* of the property, with no element of the name of the class between: the
\* serializer writes none, the deserializer takes every element in the
\* element of the property for a property of the class, and a self-closing
\* element of the property for the class with no property given.
ClsPropertyAsSequence ==
    /\ RecGiven /\ doc[2].empty =>
            /\ res.status = "error"
            /\ res.error.kind = "MissingRequiredProperty"
            /\ res.error.cls = "leaf"
            /\ res.error.name = Unprefixed("text")
            /\ res.error.segments = <<NameSegment("rec")>>
            /\ res.pos = 3
    /\ RecGiven /\ ~doc[2].empty /\ Len(doc) >= 3 /\ doc[3].kind = "Element"
       /\ TryElementName(doc[3], root.ns).error = NoError =>
            IF ResolvedName(doc[3], root.ns) \in { Unprefixed(n) : n \in PropertyNames("leaf") }
            THEN res.pos > 3
            ELSE /\ res.status = "error"
                 /\ res.error.kind = "UnknownProperty"
                 /\ res.error.cls = "leaf"
                 /\ res.error.name = ResolvedName(doc[3], root.ns)
                 /\ res.error.segments[1] = NameSegment("rec")
    /\ RecGiven /\ pc = "serialized again" =>
            /\ \A k \in 1..Len(sink.calls) :
                sink.calls[k].op = "start" => sink.calls[k].name # "leaf"
            /\ \E k \in 1..(Len(sink.calls) - 1) :
                /\ sink.calls[k] = WriteStartElement("rec")
                /\ sink.calls[k + 1] = WriteStartElement("text")

\* A holder whose rec was read from a text element directly in the element
\* rec was written again.
RecWrittenAgain ==
    /\ RecGiven
    /\ pc = "serialized again"
    /\ doc[3].kind = "Element"
    /\ doc[3].local = "text"
    /\ res.status = "ok"
    /\ res.value.slots["rec"].cls = "leaf"

\* An element of the name of the class in the element of the property was
\* taken for a property of the class.
WrapperTakenForProperty ==
    /\ RecGiven
    /\ Len(doc) >= 3
    /\ doc[3].kind = "Element"
    /\ doc[3].local = "leaf"
    /\ res.status = "error"
    /\ res.error.kind = "UnknownProperty"

\* ------------------------------------ properties: list properties

\* The positions of the start tags of the consecutive elements from p on,
\* white space and comments between them skipped, each element taken up to
\* the end tag that closes it.
RECURSIVE ChildStarts(_, _)
ChildStarts(d, p) ==
    IF Current(d, SkipNoneWhitespaceAndComments(d, p)).kind = "Element"
    THEN <<SkipNoneWhitespaceAndComments(d, p)>>
         \o ChildStarts(d, ExactlyPast(d, SkipNoneWhitespaceAndComments(d, p)))
    ELSE <<>>

\* The first node after the consecutive elements from p on that is no
\* white space and no comment.
AfterChildren(d, p) ==
    IF ChildStarts(d, p) = <<>> THEN SkipNoneWhitespaceAndComments(d, p)
    ELSE SkipNoneWhitespaceAndComments(d,
            ExactlyPast(d, ChildStarts(d, p)[Len(ChildStarts(d, p))]))

\* The class of the call has a list property, and the element of that
\* property stands at k in the document.
ListElementAt(k) ==
    /\ root.op = "element"
    /\ root.sym \in {"holder", "group"}
    /\ k \in 2..Len(doc)
    /\ doc[k].kind = "Element"
    /\ doc[k].local = ListProperty(root.sym).name
    /\ \A j \in 1..Len(doc) :
        doc[j].kind = "Element" /\ doc[j].local = doc[k].local => j = k

\* The list read from the element at k is the items that the FromElement
\* method of the class or interface of the items gives for the consecutive
\* elements in it, in the order of the document; the loop over the items
\* was left at the end tag of the property.
ItemsOfChildren(k, list) ==
    IF doc[k].empty THEN list = <<>>
    ELSE /\ Len(list) = Len(ChildStarts(doc, k + 1))
         /\ \A i \in 1..Len(list) :
                list[i] = DeserializeItem(ListProperty(root.sym).type.of, doc,
                                          ChildStarts(doc, k + 1)[i], root.ns).value
         /\ doc[AfterChildren(doc, k + 1)].kind = "EndElement"
         /\ doc[AfterChildren(doc, k + 1)].local = doc[k].local

\* C31: a list property read from a self-closing element is the empty list;
\* read from an element with content it has one item for each of the
\* consecutive elements in it, in the order of the document, each item
\* read by the FromElement method of the class or interface of the items;
\* the loop over the items is left at the first node that is no start tag,
\* where the end tag of the property is read.
ListOfItemsInOrder ==
    pc = "deserialized" /\ res.status = "ok" =>
        \A k \in 2..Len(doc) :
            ListElementAt(k) =>
                ItemsOfChildren(k, res.value.slots[ListProperty(root.sym).name].list)

\* A list of two different items was written and read.
TwoDifferentItemsRead ==
    /\ pc = "deserialized"
    /\ res.status = "ok"
    /\ root.op = "element"
    /\ root.sym = "holder"
    /\ res.value.slots["items"] # Null
    /\ Len(res.value.slots["items"].list) = 2
    /\ res.value.slots["items"].list[1].cls = "circle"
    /\ res.value.slots["items"].list[2].cls = "square"

\* An empty list was written as a self-closing element and read.
EmptyListRead ==
    /\ pc = "deserialized"
    /\ res.status = "ok"
    /\ \E k \in 2..Len(doc) : ListElementAt(k) /\ doc[k].empty

\* The document starts with the start tag of the class of the call and the
\* element, with content, of its list property.
ListGiven ==
    /\ ListElementAt(2)
    /\ ~doc[2].empty
    /\ doc[1].kind = "Element" /\ ~doc[1].empty
    /\ ResolvedName(doc[1], root.ns) = Unprefixed(root.sym)
    /\ \A k \in 1..2 : TryElementName(doc[k], root.ns).error = NoError
    /\ ResolvedName(doc[2], root.ns) = Unprefixed(doc[2].local)

\* The error is that of an item: its path starts with an index.
ItemFailed ==
    /\ res.status = "error"
    /\ res.error.segments # <<>>
    /\ ~IsNameSegment(res.error.segments[1])

\* C31 (the errors): the error of an item has the number of the elements
\* before it as its index and is the error of the FromElement method on
\* that element; when no item fails the loop is left at the first node
\* that is no start tag, and an end of the document or a node that is no
\* end tag there is the error of the end tag of the property.
ItemErrorsAndEnd ==
    ListGiven =>
        /\ ItemFailed =>
            /\ res.error.segments[1].index + 1 <= Len(ChildStarts(doc, 3))
            /\ res = AddItem(ListProperty(root.sym), doc, root.ns,
                        res.error.segments[1].index, <<>>,
                        DeserializeItem(ListProperty(root.sym).type.of, doc,
                            ChildStarts(doc, 3)[res.error.segments[1].index + 1], root.ns))
        /\ res.status = "error" /\ ~ItemFailed =>
            /\ res.pos >= AfterChildren(doc, 3)
            /\ Current(doc, AfterChildren(doc, 3)).kind # "EndElement" =>
                /\ res.pos = AfterChildren(doc, 3)
                /\ res.error.expected = "end element"
                /\ res.error.name = ResolvedName(doc[2], root.ns)
                /\ res.error.kind =
                    IF EOF(doc, res.pos) THEN "UnexpectedEndOfDocument"
                    ELSE "UnexpectedNodeKind"

\* The third item of a list failed.
ThirdItemFailed ==
    /\ ListGiven
    /\ ItemFailed
    /\ res.error.segments[1] = IndexSegment(2)

\* A text after two items: the end tag of the property was required.
EndRequiredAfterItems ==
    /\ ListGiven
    /\ Len(ChildStarts(doc, 3)) = 2
    /\ res.status = "error"
    /\ res.error.kind = "UnexpectedNodeKind"
    /\ res.error.expected = "end element"
    /\ res.pos = 5

\* ---------------------- properties: white space and comments put in

\* The document with the node put in before the node at k.
PutIn(d, k, node) == SubSeq(d, 1, k - 1) \o <<node>> \o SubSeq(d, k, Len(d))

\* The names of the properties whose content the reader reads as a text.
ContentPropertyNames ==
    UNION { ContentProperties(cls) : cls \in ConcreteClasses }

\* The place before the node at k is in the content of an element of such
\* a property: only nodes of content stand between its start tag and k.
InContent(d, k) ==
    \E j \in 1..(k - 1) :
        /\ d[j].kind = "Element" /\ ~d[j].empty
        /\ d[j].local \in ContentPropertyNames
        /\ \A i \in (j + 1)..(k - 1) : d[i].kind \in ContentKinds

\* The number of nodes before p that are neither white space nor comments:
\* the node that the reader stopped after.
SignificantBefore(d, p) ==
    Cardinality({ k \in 1..Len(d) :
                    k < p /\ d[k].kind \notin {"None", "Whitespace", "Comment"} })

\* The two calls have the same outcome: the same instance, or an error of
\* the same kind with the same path, or the same exception, and the reader
\* stopped after the same node.
SameOutcome(d1, r1, d2, r2) ==
    /\ r1.status = r2.status
    /\ r1.value = r2.value
    /\ r1.error.kind = r2.error.kind
    /\ r1.error.segments = r2.error.segments
    /\ r1.thrown = r2.thrown
    /\ SignificantBefore(d1, r1.pos) = SignificantBefore(d2, r2.pos)

\* White space or a comment put in before the node at k, or at the end,
\* leaves the outcome of the call as it is.
PutInKeepsOutcome(k) ==
    \A node \in {Whitespace(<<" ">>), Comment} :
        SameOutcome(doc, res, PutIn(doc, k, node), CallEntry(root, PutIn(doc, k, node)))

\* The place before the node at k is the end of the document right after
\* the start tag of a property whose type is an interface.
AtEndInInterfaceProperty(k) ==
    /\ k = Len(doc) + 1
    /\ k > 1
    /\ doc[k - 1].kind = "Element" /\ ~doc[k - 1].empty
    /\ doc[k - 1].local = "shape"

\* C32 (all places but one): white space or a comment put in anywhere but
\* in the content of a property read as a text, and but at the end of a
\* document that ends with the start tag of a property whose type is an
\* interface, leaves the outcome and the node the reader stopped after.
PutInKeepsOutcomeButAtEnd ==
    pc = "deserialized" =>
        \A k \in 1..(Len(doc) + 1) :
            ~InContent(doc, k) /\ ~AtEndInInterfaceProperty(k) => PutInKeepsOutcome(k)

\* C32: white space or a comment put in between any two nodes of a
\* document, or at its end, but not in the content of a property read as a
\* text, changes neither the outcome of the call (the instance, or the
\* kind and the path of the error) nor the node the reader stopped after.
InsignificantNodesSkipped ==
    pc = "deserialized" =>
        \A k \in 1..(Len(doc) + 1) : ~InContent(doc, k) => PutInKeepsOutcome(k)

\* ------------------- properties: the constructor arguments of a decoder

\* The text after the first chunk that is the given one.
RECURSIVE AfterChunk(_, _)
AfterChunk(text, chunk) ==
    IF text = <<>> THEN <<>>
    ELSE IF Head(text) = chunk THEN Tail(text)
    ELSE AfterChunk(Tail(text), chunk)

\* The names of the properties whose variables the code passes to the
\* constructor, in the order of the constructor arguments.
PassedToConstructor(code) ==
    [k \in 1..(Len(AfterChunk(code, "return new")) \div 2) |->
        AfterChunk(code, "return new")[2 * k]]

\* The names of the properties that the code of a decoder reads.
ReadByDecoder(code) ==
    { code[k + 1] : k \in { j \in 1..(Len(code) - 1) : code[j] = "case" } }

\* The classes of the symbol table that a from-sequence decoder is
\* generated for.
WithFromSequence ==
    { k \in 1..Len(symbol_table) :
        /\ symbol_table[k].kind = "ConcreteClass"
        /\ ~symbol_table[k].is_implementation_specific
        /\ ~IsRaised(GenerateClsFromSequence(symbol_table[k]))
        /\ GenerateClsFromSequence(symbol_table[k]).code # None }

\* The decoder of the class has the names of the properties as the names
\* of the constructor arguments, reads every property and passes to each
\* constructor argument the variable of the property of its name.
PassesItsProperties(cls) ==
    /\ NameSet(cls.properties) = NameSet(cls.arguments)
    /\ ReadByDecoder(GenerateClsFromSequence(cls).code[1]) = NameSet(cls.properties)
    /\ PassedToConstructor(GenerateClsFromSequence(cls).code[1]) = cls.arguments

\* C33: for every concrete class that a from-sequence decoder is generated
\* for, the set of the names of the properties is the set of the names of
\* the constructor arguments, and the decoder passes to each constructor
\* argument the variable of the property of the same name; a class whose
\* sets differ, one with properties and without constructor arguments
\* among them, gets no decoder that leaves its properties out.
DecoderPassesEveryProperty ==
    pc = "xmlization" =>
        \A k \in WithFromSequence : PassesItsProperties(symbol_table[k])

\* C33 (the classes with constructor arguments): a class that has a
\* constructor argument and gets a decoder has the names of its properties
\* as the names of its constructor arguments, and the decoder passes the
\* variable of the same-named property to each; when the sets differ
\* the assert fails and generate returns nothing.
DecoderOfArgumentsPassesEveryProperty ==
    pc = "xmlization" =>
        /\ \A k \in WithFromSequence :
              Len(symbol_table[k].arguments) > 0 => PassesItsProperties(symbol_table[k])
        /\ \A k \in 1..Len(symbol_table) :
              /\ symbol_table[k].kind = "ConcreteClass"
              /\ ~symbol_table[k].is_implementation_specific
              /\ Len(symbol_table[k].arguments) > 0
              /\ NameSet(symbol_table[k].properties) # NameSet(symbol_table[k].arguments)
              => IsRaised(generated)

\* A decoder was generated for a class whose constructor arguments are in
\* another order than its properties.
DecoderOfOtherOrderGenerated ==
    /\ pc = "xmlization"
    /\ ~IsRaised(generated)
    /\ generated.code # None
    /\ \E k \in WithFromSequence :
          /\ Len(symbol_table[k].arguments) = 2
          /\ symbol_table[k].arguments # symbol_table[k].properties

\* generate raised the AssertionError for a class with two properties and
\* one constructor argument.
AssertRaisedForMissingArgument ==
    /\ pc = "xmlization"
    /\ generated = Raised("AssertionError")
    /\ \E k \in 1..Len(symbol_table) :
          /\ Len(symbol_table[k].properties) = 2
          /\ Len(symbol_table[k].arguments) = 1

\* The code was generated for a class with a property and without
\* constructor arguments: its decoder reads no property.
HardWiredWithProperty ==
    /\ pc = "xmlization"
    /\ ~IsRaised(generated)
    /\ generated.code # None
    /\ \E k \in WithFromSequence :
          /\ symbol_table[k].properties # <<>>
          /\ symbol_table[k].arguments = <<>>
          /\ ReadByDecoder(GenerateClsFromSequence(symbol_table[k]).code[1]) = {}

\* ------------- properties: a property given more than once, and the order

\* The positions of the start tags of the elements of the properties in
\* the element of the class of the call.
PropertyStarts == ChildStarts(doc, 2)

\* What the switch on the name gives for the element that starts at s,
\* taken alone: the value of the property, or its error.
ValueAt(s) ==
    SwitchElementName(root.sym, doc, Read(doc, s), doc[s].empty, root.ns,
                      TryElementName(doc[s], root.ns).name)

\* The places in PropertyStarts of the elements of the property n.
Occurrences(n) ==
    { k \in 1..Len(PropertyStarts) : doc[PropertyStarts[k]].local = n }

Maximum(S) == CHOOSE k \in S : \A j \in S : j <= k

Minimum(S) == CHOOSE k \in S : \A j \in S : k <= j

\* The places of the elements whose value is not read.
FailingElements ==
    { k \in 1..Len(PropertyStarts) : ValueAt(PropertyStarts[k]).status # "ok" }

\* C34: when the element of a property occurs more than once in the
\* element of a class, no error is reported for that and the instance holds
\* the value of the last occurrence; every occurrence is decoded, so
\* that the first element whose value is not read, an earlier occurrence
\* too, gives the error.
LastOccurrenceKept ==
    pc = "deserialized" /\ root.op = "element" /\ PropertyStarts # <<>> =>
        IF FailingElements = {}
        THEN /\ res.status \in {"ok", "error"}
             /\ res.status = "error" =>
                   /\ res.error.kind = "MissingRequiredProperty"
                   /\ Occurrences(res.error.name[2]) = {}
             /\ res.status = "ok" =>
                   \A n \in PropertyNames(root.sym) :
                       res.value.slots[n] =
                           IF Occurrences(n) = {} THEN Null
                           ELSE ValueAt(PropertyStarts[Maximum(Occurrences(n))]).value
        ELSE /\ res.status = ValueAt(PropertyStarts[Minimum(FailingElements)]).status
             /\ res.pos = ValueAt(PropertyStarts[Minimum(FailingElements)]).pos
             /\ res.error.kind
                  = ValueAt(PropertyStarts[Minimum(FailingElements)]).error.kind

\* A property was given twice with two values, and the instance holds the
\* second.
SecondOfTwoValuesKept ==
    /\ pc = "deserialized"
    /\ res.status = "ok"
    /\ \E n \in PropertyNames(root.sym) :
          /\ Cardinality(Occurrences(n)) = 2
          /\ ValueAt(PropertyStarts[Minimum(Occurrences(n))]).status = "ok"
          /\ ValueAt(PropertyStarts[Minimum(Occurrences(n))]).value
               # ValueAt(PropertyStarts[Maximum(Occurrences(n))]).value
          /\ res.value.slots[n] = ValueAt(PropertyStarts[Maximum(Occurrences(n))]).value

\* A property was given twice, the first time with a value that is not
\* read and the second time with one that is: the first gave the error.
EarlierOccurrenceFailed ==
    /\ pc = "deserialized"
    /\ res.status = "error"
    /\ \E n \in PropertyNames(root.sym) :
          /\ Cardinality(Occurrences(n)) = 2
          /\ FailingElements = {Minimum(Occurrences(n))}
          /\ res.pos = ValueAt(PropertyStarts[Minimum(Occurrences(n))]).pos

\* The nodes of the element that starts at s, up to its end tag.
ElementNodes(s) == SubSeq(doc, s, ExactlyPast(doc, s) - 1)

\* The elements of the property n, in the order of the document.
ElementsOf(n) ==
    Concat([k \in 1..Len(PropertyStarts) |->
              IF doc[PropertyStarts[k]].local = n
              THEN ElementNodes(PropertyStarts[k]) ELSE <<>>])

\* The document with the elements of the properties in the order in which
\* the class declares the properties.
InDeclarationOrder ==
    <<doc[1]>>
    \o Concat([k \in 1..Len(Properties(root.sym)) |->
                 ElementsOf(Properties(root.sym)[k].name)])
    \o <<doc[Len(doc)]>>

\* The outcome res of the document is the outcome r of the document in
\* the order of the declaration: the same instance, the same missing
\* property, or the error of an element of the document.
SameAsInOrder(r) ==
    /\ res.status = r.status
    /\ res.status = "ok" => res.value = r.value
    /\ res.status = "error" /\ FailingElements = {} => res.error = r.error
    /\ res.status = "error" /\ FailingElements # {} =>
          \E k \in FailingElements :
              /\ res.pos = ValueAt(PropertyStarts[k]).pos
              /\ res.error.kind = ValueAt(PropertyStarts[k]).error.kind
              /\ res.error.segments # <<>>
              /\ res.error.segments[1] = NameSegment(doc[PropertyStarts[k]].local)

\* C35: the elements of the properties are accepted in any order: a
\* document gives the instance that the document with the same elements in
\* the order of the declaration gives, or, when the value of a property is
\* not read, an error for a property whose element the document holds.
AnyOrderAccepted ==
    pc = "deserialized" /\ root.op = "element" /\ PropertyStarts # <<>> =>
        SameAsInOrder(CallEntry(root, InDeclarationOrder))

\* The element of a property declared later stood before that of a
\* property declared earlier, and the instance holds both values.
LaterDeclaredFirst ==
    /\ pc = "deserialized"
    /\ res.status = "ok"
    /\ doc # InDeclarationOrder
    /\ Len(PropertyStarts) = 2
    /\ doc[PropertyStarts[1]].local # doc[PropertyStarts[2]].local
    /\ res.value.slots[doc[PropertyStarts[1]].local] # Null
    /\ res.value.slots[doc[PropertyStarts[2]].local] # Null

\* Two elements with values that are not read stood in another order than
\* that of the declaration: the error is that of the first of the document.
FirstOfDocumentFailed ==
    /\ pc = "deserialized"
    /\ res.status = "error"
    /\ doc # InDeclarationOrder
    /\ Cardinality(FailingElements) = 2
    /\ res.error # CallEntry(root, InDeclarationOrder).error

\* ------------------ properties: the one element of an interface property

\* The properties of cls whose type is an interface.
InterfaceProperties(cls) ==
    { n \in PropertyNames(cls) : PropertyByName(cls, n).type.t = "iface" }

\* The first node in the element of the class of the call that is no white
\* space and no comment.
FirstChildAt == SkipNoneWhitespaceAndComments(doc, RootElementAt + 1)

\* The classes that have an interface property.
WithInterfaceProperty == { cls \in ConcreteClasses : InterfaceProperties(cls) # {} }

\* The call is that of the entry point of a class, and the first element
\* in the element of the class is that of an interface property, is not
\* self-closing and is not the last node.
InterfacePropertyFirst ==
    /\ root.op = "element"
    /\ root.sym \in WithInterfaceProperty
    /\ Len(doc) >= 3
    /\ RootElementAt <= Len(doc)
    /\ ~doc[RootElementAt].empty
    /\ IsElementNamed(doc[RootElementAt], root.ns, root.sym)
    /\ FirstChildAt < Len(doc)
    /\ ~doc[FirstChildAt].empty
    /\ \E n \in InterfaceProperties(root.sym) : IsElementNamed(doc[FirstChildAt], root.ns, n)

\* The first node after the inner element decoded from p on that is no
\* white space and no comment.
AfterInner(p) ==
    SkipNoneWhitespaceAndComments(doc, InterfaceFromElement("shape", doc, p, root.ns).pos)

\* The inner element is decoded, and after it comes the start tag of an
\* element.
SecondElementFollows ==
    /\ InterfaceFromElement("shape", doc, FirstChildAt + 1, root.ns).status = "ok"
    /\ AfterInner(FirstChildAt + 1) <= Len(doc)
    /\ doc[AfterInner(FirstChildAt + 1)].kind = "Element"

\* C36: the element of an interface property holds one inner element: when
\* the start tag of a second element follows the inner element that was
\* decoded, the decoding fails where the end tag of the property is
\* required, with an element found in its place; the second element is
\* neither decoded nor skipped.
OneInnerElement ==
    pc = "deserialized" /\ InterfacePropertyFirst /\ SecondElementFollows =>
        res = Failed(Error("UnexpectedNodeKind", "end element", root.sym,
                           TryElementName(doc[FirstChildAt], root.ns).name),
                     AfterInner(FirstChildAt + 1))

\* Two inner elements stood in the element of an interface property, and
\* the decoding failed at the start tag of the second.
SecondInnerElementRefused ==
    /\ pc = "deserialized"
    /\ InterfacePropertyFirst
    /\ SecondElementFollows
    /\ res.status = "error"
    /\ res.error.kind = "UnexpectedNodeKind"
    /\ res.error.expected = "end element"
    /\ res.pos = AfterInner(FirstChildAt + 1)
    /\ IsElementNamed(doc[res.pos], root.ns, "square")

\* ------------------ properties: the dispatch and the implementer's checks

\* The names of the implementers of the interface, as element names.
ImplementerNames == { Unprefixed(Implementers("shape")[k]) : k \in 1..Len(Implementers("shape")) }

\* The element name was resolved and is that of an implementer.
NamesImplementer(elementName) ==
    /\ elementName.error = NoError
    /\ elementName.name \in ImplementerNames

\* <Interface>FromElement, called with the reader at p, finds at the first
\* node that is no white space and no comment the start tag of an element
\* whose name is that of an implementer, and calls the decoder of it.
Dispatched(p) ==
    /\ Current(doc, SkipNoneWhitespaceAndComments(doc, p)).kind = "Element"
    /\ NamesImplementer(TryElementName(Current(doc, SkipNoneWhitespaceAndComments(doc, p)),
                                       root.ns))

\* The error of one of the checks that <Cls>FromElement of an implementer
\* makes before it reads the start tag: the end of the document, the kind
\* of the node and the name; the error of the namespace is that of
\* TryElementName and is told from others by its position alone.
OfImplementerChecks(e) ==
    /\ e.kind \in {"UnexpectedEndOfDocument", "UnexpectedNodeKind", "UnexpectedElementName"}
    /\ e.expected = "element"
    /\ \E k \in 1..Len(Implementers("shape")) : e.cls = Implementers("shape")[k]

\* An error of the call lies after the start tag at which the reader
\* stands after p, and is none of the checks of the implementer.
FailsAfterStart(p) ==
    res.status = "error" =>
        /\ res.pos > SkipNoneWhitespaceAndComments(doc, p)
        /\ ~OfImplementerChecks(res.error)

\* C37: the dispatch of <Interface>FromElement and the checks of the
\* implementer agree: when the decoder of an implementer is called, it
\* finds the reader at the start tag that the dispatch looked at, and its
\* checks of the end of the document, of the kind of the node, of the
\* namespace and of the name pass, so that an error of the call lies after
\* the start tag and is none of these four.
DispatchAgreesWithImplementer ==
    /\ (pc = "deserialized" /\ root.op = "interface" /\ Dispatched(1)) =>
          /\ FailsAfterStart(1)
          /\ res.status = "ok" =>
                IsElementNamed(doc[SkipNoneWhitespaceAndComments(doc, 1)], root.ns,
                               res.value.cls)
    /\ (pc = "deserialized" /\ InterfacePropertyFirst /\ Dispatched(FirstChildAt + 1)) =>
          FailsAfterStart(FirstChildAt + 1)

\* The decoder of an implementer was called by the dispatch and failed
\* after its start tag.
ImplementerFailedAfterStart ==
    /\ pc = "deserialized"
    /\ root.op = "interface"
    /\ Dispatched(1)
    /\ res.status = "error"
    /\ res.error.cls = "circle"
    /\ res.pos > SkipNoneWhitespaceAndComments(doc, 1)

\* The decoder of an implementer was called by the dispatch of an
\* interface property and failed after its start tag.
ImplementerOfPropertyFailedAfterStart ==
    /\ pc = "deserialized"
    /\ InterfacePropertyFirst
    /\ Dispatched(FirstChildAt + 1)
    /\ res.status = "error"
    /\ res.error.cls = "circle"
    /\ res.error.segments # <<>>

\* ------------------ properties: what is written when the encoding fails

\* The elements that the first k calls started and did not end.
Unclosed(calls, k) ==
    Cardinality({ j \in 1..k : calls[j].op = "start" })
    - Cardinality({ j \in 1..k : calls[j].op = "end" })

\* The properties of cls that are enumerations.
EnumerationProperties(cls) ==
    { n \in PropertyNames(cls) : PropertyByName(cls, n).type.t = "enum" }

\* The start of the element of the class that owns the element started by
\* the last call: the last start before it that is not ended.
OwnerStart(calls) ==
    Maximum({ j \in 1..(Len(calls) - 1) :
                /\ calls[j].op = "start"
                /\ Unclosed(calls, j) = Unclosed(calls, Len(calls)) - 1
                /\ \A i \in j..Len(calls) : Unclosed(calls, i) >= Unclosed(calls, j) })

\* The names of the elements started directly in the element that the
\* call at o started.
StartedIn(calls, o) ==
    SelectSeq([j \in 1..(Len(calls) - o) |->
                  IF /\ calls[o + j].op = "start"
                     /\ Unclosed(calls, o + j) = Unclosed(calls, o) + 1
                  THEN calls[o + j].name ELSE ""],
              LAMBDA n : n # "")

\* The names of the properties of the instance that are set, in the order
\* of the declaration, up to the first whose value is no literal of its
\* enumeration.
UpToUnmapped(that) ==
    LET set == SelectSeq(Properties(that.cls), LAMBDA prop : that.slots[prop.name] # Null)
        unmapped == { k \in 1..Len(set) :
                        /\ set[k].type.t = "enum"
                        /\ ~IsLiteral(set[k].type.of, that.slots[set[k].name].enum) }
    IN  [k \in 1..Minimum(unmapped) |-> set[k].name]

\* C38: when the encoding fails for a value that is no literal of its
\* enumeration, the element of the owning class was started, the
\* elements of the properties before the failing one were written and
\* ended, the element of the failing property was started, and nothing
\* is ended after that: the sink holds at least two elements that are not
\* ended.
FailureLeavesElementsOpen ==
    pc = "serialized" /\ sink.thrown = "ArgumentException" =>
        /\ Len(sink.calls) >= 2
        /\ sink.calls[Len(sink.calls)].op = "start"
        /\ Unclosed(sink.calls, Len(sink.calls)) >= 2
        /\ sink.calls[OwnerStart(sink.calls)].name \in {"scalars"}
        /\ sink.calls[Len(sink.calls)].name
             \in EnumerationProperties(sink.calls[OwnerStart(sink.calls)].name)
        /\ Unclosed(sink.calls, Len(sink.calls) - 1)
             = Unclosed(sink.calls, OwnerStart(sink.calls))
        /\ inst.cls = "scalars" =>
              /\ OwnerStart(sink.calls) = 1
              /\ StartedIn(sink.calls, 1) = UpToUnmapped(inst)

\* The encoding failed after the elements of three properties were
\* written and ended.
FailedAfterThreeProperties ==
    /\ pc = "serialized"
    /\ sink.thrown = "ArgumentException"
    /\ Len(StartedIn(sink.calls, 1)) = 4
    /\ Unclosed(sink.calls, Len(sink.calls)) = 2
    /\ Cardinality({ j \in 1..Len(sink.calls) : sink.calls[j].op = "end" }) = 3

\* ------------------------- properties: the signatures of an interface

\* The abstract classes of the symbol table.
AbstractClasses ==
    { k \in 1..Len(symbol_table) : symbol_table[k].kind = "AbstractClass" }

\* The chunks of the text that start a signature.
SignaturesIn(text) == { k \in 1..Len(text) : text[k] = "public" }

\* The signatures that the interface of cls holds are as many as the
\* methods specified for cls, and each holds the arguments of its method.
OneSignatureForEachMethod(cls) ==
    /\ ~IsRaised(GenerateInterface(cls))
    /\ GenerateInterface(cls).code # None
    /\ Cardinality(SignaturesIn(GenerateInterface(cls).code[1]))
         = Len(SpecifiedMethods(cls))
    /\ Cardinality({ k \in 1..Len(GenerateInterface(cls).code[1]) :
                       GenerateInterface(cls).code[1][k] = "arg" })
         = Len(Concat([k \in 1..Len(SpecifiedMethods(cls)) |->
                         ArgCodes(SpecifiedMethods(cls)[k])]))

\* C39: the interface of an abstract class is generated with one
\* signature for each method specified for the class, whatever the number
\* of the arguments of the method (none, one, two, three or more), and the
\* assert on the number of the arguments never fails.
SignatureForEveryArgumentCount ==
    pc = "structure" =>
        /\ ~IsRaised(generated)
        /\ \A k \in AbstractClasses : OneSignatureForEachMethod(symbol_table[k])

\* C39 (all numbers but two): the interface of an abstract class whose
\* specified methods have none, one, three or more arguments holds one
\* signature for each of them, with its arguments; generate raises the
\* AssertionError when and only when a specified method of an abstract
\* class has exactly two arguments.
SignatureUnlessTwoArguments ==
    pc = "structure" =>
        /\ IsRaised(generated) <=>
              \E k \in AbstractClasses :
                  \E m \in 1..Len(SpecifiedMethods(symbol_table[k])) :
                      SpecifiedMethods(symbol_table[k])[m].arguments = 2
        /\ ~IsRaised(generated) =>
              \A k \in AbstractClasses : OneSignatureForEachMethod(symbol_table[k])

\* The code was generated for abstract classes with methods of none, of
\* one and of three arguments.
SignaturesOfThreeCountsGenerated ==
    /\ pc = "structure"
    /\ ~IsRaised(generated)
    /\ generated.code # None
    /\ UNION { { SpecifiedMethods(symbol_table[k])[m].arguments :
                    m \in 1..Len(SpecifiedMethods(symbol_table[k])) } :
                k \in AbstractClasses } = {0, 1, 3}

\* generate raised the AssertionError for a method of two arguments.
AssertRaisedForTwoArguments ==
    /\ pc = "structure"
    /\ generated = Raised("AssertionError")
====
